---- MODULE Spec2Model ----
(***************************************************************************)
(* Storage engine of KawulaSQL/Storage_Manager: the block file layout, the *)
(* record serializer, the table file manager and the storage manager,      *)
(* modelled at the level of bytes.                                         *)
(*                                                                         *)
(* A Python str is modelled by the sequence of its UTF-8 bytes, a bytes    *)
(* object by the sequence of its bytes (0..255).  A Python exception is a  *)
(* result record with ok = FALSE and err naming the exception class.       *)
(***************************************************************************)
EXTENDS Integers, Sequences, FiniteSets, TLC

VARIABLES
    files,      \* the table files under base_path: file name stem -> sequence of blocks
    tables,     \* StorageManager.tables: table name -> table file manager fields
    buffer,     \* the page cache: <<table name, block number>> -> Block
    indexFiles, \* the <table>-<column>-hash.pickle files that exist, with their contents
    last,       \* the call made last, what it was given and what it returned
    hist        \* what the calls so far amount to (see the state machine)

vars == <<files, tables, buffer, indexFiles, last, hist>>

(***************************************************************************)
(* Program constants.                                                      *)
(***************************************************************************)
BLOCK_SIZE == 4096
HEADER_SIZE == 12
DATA_SIZE == BLOCK_SIZE - HEADER_SIZE
SENTINEL == 204
QUOTE == 39
CATALOG_NAME_SIZE == 50

(***************************************************************************)
(* Bounds of the model.                                                    *)
(***************************************************************************)
MaxRecords == 2
MaxCatalogRows == 2
MaxNameSize == 4000
KeySpace == 4

(***************************************************************************)
(* Strings used by the program and by the inputs, as UTF-8 bytes.          *)
(***************************************************************************)
s_RC == <<82, 67>>
s_HEAD == <<72, 69, 65, 68>>
s_int == <<105, 110, 116>>
s_float == <<102, 108, 111, 97, 116>>
s_char == <<99, 104, 97, 114>>
s_varchar == <<118, 97, 114, 99, 104, 97, 114>>
s_id == <<105, 100>>
s_name == <<110, 97, 109, 101>>
s_table_name == <<116, 97, 98, 108, 101, 95, 110, 97, 109, 101>>
s_information_schema ==
    <<105, 110, 102, 111, 114, 109, 97, 116, 105, 111, 110, 95, 115, 99, 104, 101, 109, 97>>

(***************************************************************************)
(* Python helpers.                                                         *)
(***************************************************************************)
Min(a, b) == IF a < b THEN a ELSE b
Max(a, b) == IF a > b THEN a ELSE b

\* s[lo:hi] of a sequence, 0-based, with Python's clamping of the two ends
PySlice(s, lo, hi) ==
    LET n == Len(s)
        l == IF lo < 0 THEN Max(n + lo, 0) ELSE Min(lo, n)
        h == IF hi < 0 THEN Max(n + hi, 0) ELSE Min(hi, n)
    IN  IF h <= l THEN <<>> ELSE SubSeq(s, l + 1, h)

\* n.to_bytes(k, 'little'), for 0 <= n < 256^k and k <= 4
LE(n, k) == [i \in 1..k |-> (n \div (256 ^ (i - 1))) % 256]

\* int.from_bytes(b, 'little'), for a slice of at most 3 bytes
FromLE(b) ==
    (IF Len(b) >= 1 THEN b[1] ELSE 0)
    + (IF Len(b) >= 2 THEN b[2] * 256 ELSE 0)
    + (IF Len(b) >= 3 THEN b[3] * 65536 ELSE 0)

\* int.from_bytes(b, 'little') of 4 bytes; a value of 2^31 or more, which the
\* model's integers do not hold, is read as the largest integer
U32(b) ==
    IF Len(b) >= 4 /\ b[4] >= 128 THEN 2147483647
    ELSE FromLE(b) + (IF Len(b) >= 4 THEN b[4] * 16777216 ELSE 0)

\* the one element of a singleton set: Only({e : x \in {v}}) is e with x bound
\* to the value of v, computed once
Only(S) == CHOOSE r \in S : TRUE

Ok(v) == [ok |-> TRUE, err |-> "", v |-> v]
Raise(e, v) == [ok |-> FALSE, err |-> e, v |-> v]

(***************************************************************************)
(* Values of a tuple.  An int is IntV(n); a str is StrV(bytes).  The model *)
(* covers the dtypes int, char and varchar; its integers are those of      *)
(* 32 bits, so every int fits the 4 bytes of an int column.                *)
(***************************************************************************)
IntV(n) == [t |-> "int", i |-> n, s |-> <<>>]
StrV(b) == [t |-> "str", i |-> 0, s |-> b]

IsCont(x) == x >= 128 /\ x <= 191
LeadLen(x) ==
    IF x < 128 THEN 1
    ELSE IF x >= 194 /\ x <= 223 THEN 2
    ELSE IF x >= 224 /\ x <= 239 THEN 3
    ELSE IF x >= 240 /\ x <= 244 THEN 4
    ELSE 0

\* bytes.decode('utf-8') succeeds (overlong and surrogate forms are not told apart)
Utf8Valid(b) ==
    \A i \in 1..Len(b) :
        IF b[i] < 128 THEN TRUE
        ELSE IF IsCont(b[i])
        THEN \E k \in 1..3 :
                /\ i - k >= 1
                /\ LeadLen(b[i - k]) > k
                /\ \A j \in 1..(k - 1) : IsCont(b[i - j])
        ELSE /\ LeadLen(b[i]) >= 2
             /\ \A j \in 1..(LeadLen(b[i]) - 1) : i + j <= Len(b) /\ IsCont(b[i + j])

\* len() of a str: its number of code points
PyLen(b) ==
    IF \A i \in 1..Len(b) : b[i] < 128 THEN Len(b)
    ELSE Cardinality({i \in 1..Len(b) : ~IsCont(b[i])})

IsDigit(x) == x >= 48 /\ x <= 57

RECURSIVE DigitsValue(_, _)
DigitsValue(b, n) == IF n = 0 THEN 0 ELSE DigitsValue(b, n - 1) * 10 + (b[n] - 48)

\* int(value) of RecordSerializer.serialize, for an int or a str of decimal digits
PyInt(value) ==
    IF value.t = "int" THEN Ok(value.i)
    ELSE IF Len(value.s) >= 1 /\ \A i \in 1..Len(value.s) : IsDigit(value.s[i])
         THEN Ok(DigitsValue(value.s, Len(value.s)))
    ELSE IF Len(value.s) >= 2 /\ value.s[1] = 45
            /\ \A i \in 2..Len(value.s) : IsDigit(value.s[i])
         THEN Ok(0 - DigitsValue(Tail(value.s), Len(value.s) - 1))
    ELSE Raise("ValueError", 0)

(***************************************************************************)
(* DtypeEncoder                                                            *)
(***************************************************************************)
IntFits(num, bytes, signed) ==
    IF bytes >= 4 THEN TRUE
    ELSE IF signed
         THEN num >= 0 - (256 ^ bytes) \div 2 /\ num < (256 ^ bytes) \div 2
         ELSE num >= 0 /\ num < 256 ^ bytes

encodeInt(num, bytes, signed) ==
    IF IntFits(num, bytes, signed) THEN Ok(LE(num, bytes)) ELSE Raise("OverflowError", <<>>)

\* the pair (value, new offset) of decodeInt, reading the slice that is there
decodeInt(byte_data, offset, bytes, signed) ==
    Only({ LET m == Len(b)
               top == IF signed /\ b[m] >= 128 THEN b[m] - 256 ELSE b[m]
           IN  [value |-> IF m = 0 THEN 0
                          ELSE top * (256 ^ (m - 1))
                               + (IF m = 1 THEN 0 ELSE FromLE(SubSeq(b, 1, m - 1))),
                offset |-> offset + bytes] :
           b \in {PySlice(byte_data, offset, offset + bytes)} })

encodeChar(char, size) ==
    IF Len(char) >= size THEN char
    ELSE char \o [i \in 1..(size - Len(char)) |-> 0]

RECURSIVE RStripZero(_)
RStripZero(b) ==
    IF Len(b) > 0 /\ b[Len(b)] = 0 THEN RStripZero(SubSeq(b, 1, Len(b) - 1)) ELSE b

decodeChar(byte_data, offset, size) ==
    Only({ IF Utf8Valid(b)
           THEN Ok([value |-> StrV(RStripZero(b)), offset |-> offset + size])
           ELSE Raise("UnicodeDecodeError", [value |-> StrV(<<>>), offset |-> offset]) :
           b \in {PySlice(byte_data, offset, offset + size)} })

encodeVarChar(char, max_size) ==
    IF Len(char) = 0 THEN Raise("IndexError", <<>>)
    ELSE Only({ IF Len(stripped) > max_size THEN Raise("ValueError", <<>>)
                ELSE Ok(LE(Len(stripped), 2) \o stripped) :
                stripped \in {IF char[1] = QUOTE /\ char[Len(char)] = QUOTE
                              THEN PySlice(char, 1, Len(char) - 1)
                              ELSE char} })

decodeVarChar(byte_data, offset) ==
    Only({ Only({ IF Utf8Valid(b)
                  THEN Ok([value |-> StrV(<<QUOTE>> \o b \o <<QUOTE>>),
                           offset |-> d.offset + d.value])
                  ELSE Raise("UnicodeDecodeError", [value |-> StrV(<<>>), offset |-> offset]) :
                  b \in {PySlice(byte_data, d.offset, d.offset + d.value)} }) :
           d \in {decodeInt(byte_data, offset, 2, FALSE)} })

(***************************************************************************)
(* Attribute and Schema.  An attribute is [name, dtype, size], dtype one   *)
(* of "int", "char", "varchar".                                            *)
(***************************************************************************)
Attribute(name, dtype, size) ==
    [name |-> name, dtype |-> dtype,
     size |-> IF dtype = "int" THEN 4 ELSE IF dtype = "char" THEN 1 ELSE size]

DtypeBytes(dtype) ==
    CASE dtype = "int" -> s_int
      [] dtype = "char" -> s_char
      [] dtype = "varchar" -> s_varchar
      [] OTHER -> s_float

BytesDtype(b) ==
    IF b = s_int THEN "int"
    ELSE IF b = s_char THEN "char"
    ELSE IF b = s_varchar THEN "varchar"
    ELSE IF b = s_float THEN "float"
    ELSE "unsupported"

RECURSIVE SchemaSerialize(_)
SchemaSerialize(attributes) ==
    IF attributes = <<>> THEN <<>>
    ELSE LE(PyLen(attributes[1].name), 2) \o attributes[1].name
         \o LE(Len(DtypeBytes(attributes[1].dtype)), 2) \o DtypeBytes(attributes[1].dtype)
         \o LE(attributes[1].size, 2)
         \o SchemaSerialize(Tail(attributes))

\* one attribute of Schema.deserialize, read at offset: its fields and the
\* offset after it
SchemaDeserializeOne(data, offset) ==
    Only({ Only({ [name |-> PySlice(data, offset + 2, offset + 2 + name_len),
                   dtype |-> PySlice(data, offset + 4 + name_len,
                                     offset + 4 + name_len + dtype_len),
                   size |-> FromLE(PySlice(data, offset + 4 + name_len + dtype_len,
                                           offset + 6 + name_len + dtype_len)),
                   offset |-> offset + 6 + name_len + dtype_len] :
                  dtype_len \in {FromLE(PySlice(data, offset + 2 + name_len,
                                                offset + 4 + name_len))} }) :
           name_len \in {FromLE(PySlice(data, offset, offset + 2))} })

\* Schema.deserialize: the attributes read from data, or the error Attribute raises
RECURSIVE SchemaDeserialize(_, _)
SchemaDeserialize(data, offset) ==
    IF offset >= Len(data) THEN Ok(<<>>)
    ELSE Only({ IF ~Utf8Valid(a.name) \/ ~Utf8Valid(a.dtype)
                THEN Raise("UnicodeDecodeError", <<>>)
                ELSE IF BytesDtype(a.dtype) = "unsupported" THEN Raise("ValueError", <<>>)
                ELSE Only({ IF rest.ok
                            THEN Ok(<<Attribute(a.name, BytesDtype(a.dtype), a.size)>> \o rest.v)
                            ELSE rest :
                            rest \in {SchemaDeserialize(data, a.offset)} }) :
                a \in {SchemaDeserializeOne(data, offset)} })

(***************************************************************************)
(* RecordSerializer.  A record is a sequence of values, a schema the       *)
(* sequence of attributes (Schema.get_metadata()).                         *)
(***************************************************************************)
serializeField(value, attr) ==
    IF attr.dtype = "int"
    THEN Only({ IF n.ok THEN encodeInt(n.v, attr.size, TRUE) ELSE Raise(n.err, <<>>) :
                n \in {PyInt(value)} })
    ELSE IF attr.dtype = "char"
    THEN IF value.t # "str" THEN Raise("TypeError", <<>>)
         ELSE IF PyLen(value.s) # 1 THEN Raise("AssertionError", <<>>)
         ELSE Ok(encodeChar(value.s, attr.size))
    ELSE IF attr.dtype = "varchar"
    THEN IF value.t # "str" THEN Raise("TypeError", <<>>)
         ELSE IF PyLen(value.s) > attr.size THEN Raise("AssertionError", <<>>)
         ELSE encodeVarChar(value.s, attr.size)
    ELSE Raise("ValueError", <<>>)

\* the fields of zip(record, schema) from position i on
RECURSIVE serializeFields(_, _, _)
serializeFields(record, schema, i) ==
    IF i > Len(record) \/ i > Len(schema) THEN Ok(<<>>)
    ELSE Only({ IF ~f.ok THEN f
                ELSE Only({ IF rest.ok THEN Ok(f.v \o rest.v) ELSE rest :
                            rest \in {serializeFields(record, schema, i + 1)} }) :
                f \in {serializeField(record[i], schema[i])} })

serialize(record, schema) ==
    Only({ IF fields.ok THEN Ok(s_RC \o fields.v \o <<SENTINEL>>) ELSE fields :
           fields \in {serializeFields(record, schema, 1)} })

\* the field of attribute attr read at offset: [value, offset] or the error
deserializeField(record_bytes, attr, offset) ==
    IF attr.dtype = "int"
    THEN Only({ Ok([value |-> IntV(d.value), offset |-> d.offset]) :
                d \in {decodeInt(record_bytes, offset, attr.size, TRUE)} })
    ELSE IF attr.dtype = "char" THEN decodeChar(record_bytes, offset, attr.size)
    ELSE IF attr.dtype = "varchar" THEN decodeVarChar(record_bytes, offset)
    ELSE Raise("ValueError", [value |-> IntV(0), offset |-> offset])

RECURSIVE deserializeFields(_, _, _, _)
deserializeFields(record_bytes, schema, i, offset) ==
    IF i > Len(schema) THEN Ok(<<>>)
    ELSE Only({ IF ~f.ok THEN Raise(f.err, <<>>)
                ELSE Only({ IF rest.ok THEN Ok(<<f.v.value>> \o rest.v) ELSE rest :
                            rest \in {deserializeFields(record_bytes, schema, i + 1,
                                                        f.v.offset)} }) :
                f \in {deserializeField(record_bytes, schema[i], offset)} })

deserialize(record_bytes, schema) ==
    IF PySlice(record_bytes, 0, 2) # s_RC THEN Raise("ValueError", <<>>)
    ELSE IF Len(record_bytes) = 0 THEN Raise("IndexError", <<>>)
    ELSE IF record_bytes[Len(record_bytes)] # SENTINEL THEN Raise("ValueError", <<>>)
    ELSE deserializeFields(record_bytes, schema, 1, 2)

(***************************************************************************)
(* Block.  data holds the bytearray up to its last non-zero byte and len   *)
(* its length: the bytes from Len(data) to len - 1 are zero.  page_id is   *)
(* never assigned by the program and stays 0.                              *)
(***************************************************************************)
\* b without its trailing zero bytes
TrimZeros(b) ==
    IF b = <<>> \/ b[Len(b)] # 0 THEN b
    ELSE SubSeq(b, 1, CHOOSE i \in 0..Len(b) :
                          /\ i = 0 \/ b[i] # 0
                          /\ \A j \in (i + 1)..Len(b) : b[j] = 0)

Zeros(n) == [i \in 1..n |-> 0]

\* the first n bytes of the bytearray, zeros included (n <= len)
Padded(data, n) ==
    IF Len(data) >= n THEN SubSeq(data, 1, n) ELSE data \o Zeros(n - Len(data))

NewBlock == [record_count |-> 0, free_space_offset |-> 0, data |-> <<>>, len |-> DATA_SIZE]

\* data[lo:hi] = bytes on a bytearray of length len (Python slice assignment)
SliceAssign(block, lo, hi, bytes) ==
    LET n == block.len
        l == IF lo < 0 THEN Max(n + lo, 0) ELSE Min(lo, n)
        h == Max(IF hi < 0 THEN Max(n + hi, 0) ELSE Min(hi, n), l)
    IN  [block EXCEPT
            !.data = TrimZeros(Padded(block.data, l) \o bytes
                               \o (IF Len(block.data) > h
                                   THEN SubSeq(block.data, h + 1, Len(block.data))
                                   ELSE <<>>)),
            !.len = n - (h - l) + Len(bytes)]

capacity(block) == DATA_SIZE - block.free_space_offset

\* an add_record without the test of line 44
add_record_unchecked(block, record_bytes) ==
    Ok([SliceAssign(block, block.free_space_offset,
                    block.free_space_offset + Len(record_bytes), record_bytes)
           EXCEPT !.free_space_offset = block.free_space_offset + Len(record_bytes),
                  !.record_count = block.record_count + 1])

\* an add_record that also refuses the record that fills the block
add_record_strict(block, record_bytes) ==
    IF block.free_space_offset + Len(record_bytes) >= DATA_SIZE THEN Raise("ValueError", block)
    ELSE Ok([SliceAssign(block, block.free_space_offset,
                         block.free_space_offset + Len(record_bytes), record_bytes)
                EXCEPT !.free_space_offset = block.free_space_offset + Len(record_bytes),
                       !.record_count = block.record_count + 1])

add_record(block, record_bytes) ==
    IF block.free_space_offset + Len(record_bytes) > DATA_SIZE THEN Raise("ValueError", block)
    ELSE Ok([SliceAssign(block, block.free_space_offset,
                         block.free_space_offset + Len(record_bytes), record_bytes)
                EXCEPT !.free_space_offset = block.free_space_offset + Len(record_bytes),
                       !.record_count = block.record_count + 1])

\* block.data[lo:hi]
DataSlice(block, lo, hi) ==
    IF lo >= 0 /\ hi >= 0 /\ hi <= Len(block.data) THEN PySlice(block.data, lo, hi)
    ELSE PySlice(Padded(block.data, block.len), lo, hi)

\* to_bytes can write the header: both counters fit 4 unsigned bytes
HeaderWritable(block) == block.record_count >= 0 /\ block.free_space_offset >= 0

\* Block.read_block on a file that exists: the block at block_num, or what an
\* empty read gives past the end of the file
read_block(file, block_num) ==
    IF block_num < 0 THEN Raise("OSError", NewBlock)
    ELSE IF block_num >= Len(file)
    THEN Ok([record_count |-> 0, free_space_offset |-> 0, data |-> <<>>, len |-> 0])
    ELSE Ok(file[block_num + 1])

\* Block.write_block on a file that exists: the file afterwards
write_block(file, block, block_num) ==
    IF block_num < 0 THEN Raise("OSError", file)
    ELSE IF ~HeaderWritable(block) THEN Raise("OverflowError", file)
    ELSE IF block_num < Len(file)
    THEN Ok([file EXCEPT ![block_num + 1] = block])
    ELSE Ok(file \o [i \in 1..(block_num - Len(file)) |-> NewBlock] \o <<block>>)

(***************************************************************************)
(* TableFileManager.  A manager is [schema, record_count, block_count];    *)
(* its file is files[table_name].  The operators take and return the       *)
(* world W = [files, tables, buffer, indexFiles] so that a handler is the  *)
(* sequence of its calls.                                                  *)
(***************************************************************************)
Put(f, k, v) == [x \in DOMAIN f \cup {k} |-> IF x = k THEN v ELSE f[x]]
Drop(f, k) == [x \in DOMAIN f \ {k} |-> f[x]]

Res(ok, err, W) == [ok |-> ok, err |-> err, W |-> W]

\* the header record __write_header builds
HeaderBytes(tfm) ==
    Only({ s_HEAD \o LE(4 + 4 + 4 + 2 + 2 + 2 + Len(schema_bytes) + 1, 4)
           \o LE(tfm.record_count, 4) \o LE(tfm.block_count, 2)
           \o LE(Len(schema_bytes), 2) \o LE(Len(tfm.schema), 2)
           \o schema_bytes \o <<SENTINEL>> :
           schema_bytes \in {SchemaSerialize(tfm.schema)} })

\* __write_header: init_file truncates the file, then block 0 is written
write_header(W, table_name, tfm) ==
    IF tfm.record_count < 0 \/ tfm.block_count < 0 \/ tfm.block_count >= 65536
    THEN Res(FALSE, "OverflowError", [W EXCEPT !.files = Put(@, table_name, <<>>)])
    ELSE Only({ IF ~a.ok THEN Res(FALSE, a.err, [W EXCEPT !.files = Put(@, table_name, <<>>)])
                ELSE Res(TRUE, "", [W EXCEPT !.files = Put(@, table_name, <<a.v>>)]) :
                a \in {add_record(NewBlock, HeaderBytes(tfm))} })

\* the checks of __read_header on block 0, with the schema it deserialized
read_header_checks(block, schema_length, schema) ==
    IF ~schema.ok THEN Raise(schema.err, <<>>)
    ELSE IF Len(schema.v) # FromLE(DataSlice(block, 12, 14)) THEN Raise("ValueError", <<>>)
    ELSE IF DataSlice(block, 14 + schema_length, 14 + schema_length + 1) # <<SENTINEL>>
    THEN Raise("ValueError", <<>>)
    ELSE Ok([schema |-> schema.v, record_count |-> U32(DataSlice(block, 4, 8)),
             block_count |-> FromLE(DataSlice(block, 8, 10))])

\* __read_header on the file: the manager's fields, read with the block cursor
\* (magic at 0, then record_count at 4, block_count at 8, schema_length at 10,
\* num_attributes at 12 and the schema at 14)
read_header(file) ==
    Only({ IF DataSlice(block, 0, 4) # s_HEAD THEN Raise("ValueError", <<>>)
           ELSE Only({ Only({ read_header_checks(block, schema_length, schema) :
                              schema \in {SchemaDeserialize(
                                             DataSlice(block, 14, 14 + schema_length), 0)} }) :
                       schema_length \in {FromLE(DataSlice(block, 10, 12))} }) :
           block \in {read_block(file, 0).v} })

\* TableFileManager(table_name, schema): the manager built, and the world after
tfm_init(W, table_name, has_schema, schema) ==
    IF table_name \in DOMAIN W.files
    THEN Only({ [ok |-> h.ok, err |-> h.err, W |-> W, tfm |-> h.v] :
                h \in {read_header(W.files[table_name])} })
    ELSE IF has_schema
    THEN Only({ [ok |-> w.ok, err |-> w.err, W |-> w.W,
                 tfm |-> [schema |-> schema, record_count |-> 0, block_count |-> 1]] :
                w \in {write_header(W, table_name,
                                    [schema |-> schema, record_count |-> 0, block_count |-> 1])} })
    ELSE [ok |-> FALSE, err |-> "Schema must be provided when creating a new table.",
          W |-> W, tfm |-> <<>>]

\* __update_header of the manager in W.tables[table_name]
update_header(W, table_name) ==
    IF table_name \notin DOMAIN W.files THEN Res(FALSE, "FileNotFoundError", W)
    ELSE IF \/ W.tables[table_name].record_count < 0
            \/ W.tables[table_name].block_count < 0
            \/ W.tables[table_name].block_count >= 65536
    THEN Res(FALSE, "OverflowError", W)
    ELSE Only({ IF w.ok THEN Res(TRUE, "", [W EXCEPT !.files = Put(@, table_name, w.v)])
                ELSE Res(FALSE, w.err, W) :
                w \in {write_block(
                          W.files[table_name],
                          SliceAssign(SliceAssign(read_block(W.files[table_name], 0).v, 8, 12,
                                                  LE(W.tables[table_name].record_count, 4)),
                                      12, 14, LE(W.tables[table_name].block_count, 2)),
                          0)} })

(***************************************************************************)
(* The page cache of the recovery manager, a map from (table_name,         *)
(* block_num) to the Block object.  A Block that write_table took from the *)
(* cache is the cached object itself: add_record on it changes the cache.  *)
(* Failure_Recovery is not part of src; the cache is the one spec.md       *)
(* describes: get returns the block last set for the key, or None.         *)
(***************************************************************************)
get_buffer(W, table_name, block_num) == W.buffer[<<table_name, block_num>>]
HasBuffer(W, table_name, block_num) == <<table_name, block_num>> \in DOMAIN W.buffer
set_buffer(W, table_name, block_num, block) ==
    [W EXCEPT !.buffer = Put(@, <<table_name, block_num>>, block)]

\* the offset of the first 0xCC at or after offset, or -1 when the loop
\* `while block.data[offset] != 0xCC` runs off the bytearray
FirstSentinel(block, offset) ==
    IF \E i \in Max(offset, 0)..(Len(block.data) - 1) : block.data[i + 1] = SENTINEL
    THEN CHOOSE i \in Max(offset, 0)..(Len(block.data) - 1) :
             /\ block.data[i + 1] = SENTINEL
             /\ \A j \in Max(offset, 0)..(i - 1) : block.data[j + 1] # SENTINEL
    ELSE 0 - 1

\* the record that starts at offset and ends with the sentinel at e
record_at(block, offset, e, schema) ==
    Only({ deserialize(record_bytes, schema) :
           record_bytes \in {DataSlice(block, offset, e + 1)} })

\* the inner loops of read_table on one block: the records from offset on
RECURSIVE scan_block(_, _, _)
scan_block(block, offset, schema) ==
    IF offset >= block.free_space_offset THEN Ok(<<>>)
    ELSE Only({ IF e < 0 THEN Raise("IndexError", <<>>)
                ELSE Only({ IF ~record.ok THEN record
                            ELSE Only({ IF rest.ok THEN Ok(<<record.v>> \o rest.v) ELSE rest :
                                        rest \in {scan_block(block, e + 1, schema)} }) :
                            record \in {record_at(block, offset, e, schema)} }) :
                e \in {FirstSentinel(block, offset)} })

\* one iteration of the outer loop of read_table, on the block it fetched; W1
\* is the world after the cache was filled
RECURSIVE read_blocks(_, _, _)
read_one_block(W1, table_name, current_block, block) ==
    Only({ IF ~recs.ok THEN [ok |-> FALSE, err |-> recs.err, W |-> W1, rows |-> <<>>]
           ELSE Only({ [rest EXCEPT !.rows = recs.v \o rest.rows] :
                       rest \in {read_blocks(W1, table_name, current_block + 1)} }) :
           recs \in {scan_block(block,
                                IF current_block = 0 THEN U32(DataSlice(block, 4, 8)) ELSE 0,
                                W1.tables[table_name].schema)} })

\* the outer loop of read_table from current_block on
read_blocks(W, table_name, current_block) ==
    IF current_block >= W.tables[table_name].block_count
    THEN [ok |-> TRUE, err |-> "", W |-> W, rows |-> <<>>]
    ELSE IF HasBuffer(W, table_name, current_block)
    THEN read_one_block(W, table_name, current_block, get_buffer(W, table_name, current_block))
    ELSE IF table_name \notin DOMAIN W.files
    THEN [ok |-> FALSE, err |-> "FileNotFoundError", W |-> W, rows |-> <<>>]
    ELSE Only({ read_one_block(set_buffer(W, table_name, current_block, block),
                               table_name, current_block, block) :
                block \in {read_block(W.files[table_name], current_block).v} })

read_table(W, table_name) == read_blocks(W, table_name, 0)

\* the except branch of the loop of write_table: the full block is written
\* and the record goes to a new block
RECURSIVE write_loop(_, _, _, _)
write_spill(st, table_name, records, i, record_bytes) ==
    IF table_name \notin DOMAIN st.W.files
    THEN [st EXCEPT !.ok = FALSE, !.err = "FileNotFoundError"]
    ELSE Only({ IF ~w.ok THEN [st EXCEPT !.ok = FALSE, !.err = w.err]
                ELSE Only({ IF ~a2.ok
                            THEN [st EXCEPT !.W = W1, !.block = a2.v, !.page = st.page + 1,
                                            !.alias = FALSE, !.ok = FALSE, !.err = a2.err]
                            ELSE write_loop([st EXCEPT !.W = W1, !.block = a2.v,
                                                       !.page = st.page + 1, !.alias = FALSE],
                                            table_name, records, i + 1) :
                            a2 \in {add_record(NewBlock, record_bytes)},
                            W1 \in {[st.W EXCEPT
                                        !.files = Put(@, table_name, w.v),
                                        !.tables[table_name].block_count = @ + 1]} }) :
                w \in {write_block(st.W.files[table_name], st.block, st.page)} })

\* the loop of write_table; st = [W, block, page, alias, ok, err], where alias
\* says that block is the object the page cache holds for (table_name, page)
write_loop(st, table_name, records, i) ==
    IF i > Len(records) \/ ~st.ok THEN st
    ELSE Only({ IF ~record_bytes.ok THEN [st EXCEPT !.ok = FALSE, !.err = record_bytes.err]
                ELSE Only({ IF a.ok
                            THEN write_loop(
                                     [st EXCEPT !.block = a.v,
                                                !.W = IF st.alias
                                                      THEN set_buffer(@, table_name, st.page, a.v)
                                                      ELSE @],
                                     table_name, records, i + 1)
                            ELSE write_spill(st, table_name, records, i, record_bytes.v) :
                            a \in {add_record(st.block, record_bytes.v)} }) :
                record_bytes \in {serialize(records[i], st.W.tables[table_name].schema)} })

\* the end of write_table, after the loop left st
write_flush(st, table_name, records) ==
    IF ~st.ok THEN Res(FALSE, st.err, st.W)
    ELSE IF st.block.record_count > 0
    THEN IF table_name \notin DOMAIN st.W.files THEN Res(FALSE, "FileNotFoundError", st.W)
         ELSE Only({ IF ~w.ok THEN Res(FALSE, w.err, st.W)
                     ELSE update_header(
                              [set_buffer(st.W, table_name, st.page, st.block) EXCEPT
                                  !.files = Put(@, table_name, w.v),
                                  !.tables[table_name].record_count = @ + Len(records)],
                              table_name) :
                     w \in {write_block(st.W.files[table_name], st.block, st.page)} })
    ELSE update_header([st.W EXCEPT !.tables[table_name].record_count = @ + Len(records)],
                       table_name)

write_table(W, table_name, records) ==
    IF HasBuffer(W, table_name, W.tables[table_name].block_count - 1)
    THEN Only({ write_flush(st, table_name, records) :
                st \in {write_loop([W |-> W,
                                    block |-> get_buffer(W, table_name,
                                                         W.tables[table_name].block_count - 1),
                                    page |-> W.tables[table_name].block_count - 1,
                                    alias |-> TRUE, ok |-> TRUE, err |-> ""],
                                   table_name, records, 1)} })
    ELSE IF table_name \notin DOMAIN W.files THEN Res(FALSE, "FileNotFoundError", W)
    ELSE IF W.tables[table_name].block_count - 1 < 0 THEN Res(FALSE, "OSError", W)
    ELSE Only({ write_flush(st, table_name, records) :
                st \in {write_loop([W |-> W,
                                    block |-> read_block(W.files[table_name],
                                                         W.tables[table_name].block_count - 1).v,
                                    page |-> W.tables[table_name].block_count - 1,
                                    alias |-> FALSE, ok |-> TRUE, err |-> ""],
                                   table_name, records, 1)} })

(***************************************************************************)
(* Condition.  A condition is [operand1, operator, operand2] with the      *)
(* operands as classify_operand leaves them; an absent condition (None)    *)
(* is NoCondition.  The model's operands are attribute names, unsigned     *)
(* integer literals and quoted strings.                                    *)
(***************************************************************************)
RECURSIVE StripQuotes(_)
StripQuotes(b) ==
    IF Len(b) > 0 /\ b[1] = QUOTE THEN StripQuotes(Tail(b))
    ELSE IF Len(b) > 0 /\ b[Len(b)] = QUOTE THEN StripQuotes(SubSeq(b, 1, Len(b) - 1))
    ELSE b

classify_operand(operand) ==
    IF Len(operand) > 0 /\ \A i \in 1..Len(operand) : IsDigit(operand[i])
    THEN [value |-> IntV(DigitsValue(operand, Len(operand))), isAttribute |-> FALSE,
          type |-> "int"]
    ELSE IF Len(operand) > 0 /\ operand[1] = QUOTE /\ operand[Len(operand)] = QUOTE
    THEN [value |-> StrV(StripQuotes(operand)), isAttribute |-> FALSE, type |-> "varchar"]
    ELSE [value |-> StrV(operand), isAttribute |-> TRUE, type |-> ""]

Condition(operand1, operator, operand2) ==
    [none |-> FALSE, operand1 |-> classify_operand(operand1), operator |-> operator,
     operand2 |-> classify_operand(operand2)]

NoCondition ==
    [none |-> TRUE, operand1 |-> classify_operand(<<>>), operator |-> "",
     operand2 |-> classify_operand(<<>>)]

\* a < b on two str
StrLess(a, b) ==
    \/ Len(a) < Len(b) /\ SubSeq(b, 1, Len(a)) = a
    \/ \E i \in 1..Min(Len(a), Len(b)) :
          /\ a[i] < b[i]
          /\ \A j \in 1..(i - 1) : a[j] = b[j]

PyEq(v1, v2) == v1.t = v2.t /\ v1.i = v2.i /\ v1.s = v2.s
PyLess(v1, v2) == IF v1.t = "int" THEN v1.i < v2.i ELSE StrLess(v1.s, v2.s)

\* Condition.evaluate(value1, value2): the truth value, or the TypeError of an
\* ordering between an int and a str
evaluate(condition, value1, value2) ==
    IF condition.operator = "=" THEN Ok(PyEq(value1, value2))
    ELSE IF condition.operator = "!=" THEN Ok(~PyEq(value1, value2))
    ELSE IF value1.t # value2.t THEN Raise("TypeError", FALSE)
    ELSE IF condition.operator = "<" THEN Ok(PyLess(value1, value2))
    ELSE IF condition.operator = ">" THEN Ok(PyLess(value2, value1))
    ELSE IF condition.operator = "<=" THEN Ok(~PyLess(value2, value1))
    ELSE IF condition.operator = ">=" THEN Ok(~PyLess(value1, value2))
    ELSE Raise("ValueError", FALSE)

\* the position (from 1) of the attribute called name in the schema, 0 if none
AttrIndex(schema, name) ==
    IF \E i \in 1..Len(schema) : schema[i].name = name
    THEN CHOOSE i \in 1..Len(schema) :
             schema[i].name = name /\ \A j \in 1..(i - 1) : schema[j].name # name
    ELSE 0

\* the test both delete_record and update_record make on a record, with
\* col_1_index and col_2 the positions of the condition's attributes
matches(condition, record, schema) ==
    IF condition.none THEN Raise("AttributeError", FALSE)
    ELSE LET col_1_index == AttrIndex(schema, condition.operand1.value.s)
             col_2 == AttrIndex(schema, condition.operand2.value.s)
         IN  IF col_1_index = 0 \/ col_1_index > Len(record) THEN Raise("IndexError", FALSE)
             ELSE IF condition.operand2.isAttribute
             THEN IF col_2 = 0 \/ col_2 > Len(record) THEN Raise("IndexError", FALSE)
                  ELSE evaluate(condition, record[col_1_index], record[col_2])
             ELSE evaluate(condition, record[col_1_index], condition.operand2.value)

(***************************************************************************)
(* TableFileManager.delete_record.  st = [file, rewrite_block,             *)
(* rewrite_block_num, rows_effected, ok, err]; the blocks are read from    *)
(* and written to the file, never the page cache.                          *)
(***************************************************************************)
\* `if rewrite_block_num == -1 and should_delete`: the first match; in a
\* block other than 0 the header is cut off the rewrite block
first_match(st, block, current_block) ==
    IF current_block = 0 THEN [st EXCEPT !.rewrite_block_num = current_block]
    ELSE Only({ [st EXCEPT
                    !.rewrite_block_num = current_block,
                    !.rewrite_block =
                        [SliceAssign(@, 0, @.len - header_length,
                                     DataSlice(@, header_length, @.len))
                            EXCEPT !.free_space_offset = @ - header_length]] :
                header_length \in {U32(DataSlice(block, 4, 8))} })

\* `if not should_delete`: the record is serialized again into the rewrite block
keep_record(st, record, schema) ==
    Only({ IF ~serialized_record.ok
           THEN [st EXCEPT !.ok = FALSE, !.err = serialized_record.err]
           ELSE IF capacity(st.rewrite_block) < Len(serialized_record.v)
           THEN Only({ IF ~w.ok THEN [st EXCEPT !.ok = FALSE, !.err = w.err]
                       ELSE IF ~a.ok
                       THEN [st EXCEPT !.file = w.v, !.rewrite_block = NewBlock,
                                       !.rewrite_block_num = @ + 1,
                                       !.ok = FALSE, !.err = a.err]
                       ELSE [st EXCEPT !.file = w.v, !.rewrite_block = a.v,
                                       !.rewrite_block_num = @ + 1] :
                       w \in {write_block(st.file, st.rewrite_block, st.rewrite_block_num)},
                       a \in {add_record(NewBlock, serialized_record.v)} })
           ELSE Only({ IF a.ok THEN [st EXCEPT !.rewrite_block = a.v]
                       ELSE [st EXCEPT !.ok = FALSE, !.err = a.err] :
                       a \in {add_record(st.rewrite_block, serialized_record.v)} }) :
           serialized_record \in {serialize(record, schema)} })

\* the body of the inner while loop for one record
delete_step(st, block, current_block, record, condition, schema) ==
    Only({ IF ~m.ok THEN [st EXCEPT !.ok = FALSE, !.err = m.err]
           ELSE IF m.v
           THEN Only({ [st1 EXCEPT !.rows_effected = @ + 1] :
                       st1 \in {IF st.rewrite_block_num = 0 - 1
                                THEN first_match(st, block, current_block)
                                ELSE st} })
           ELSE keep_record(st, record, schema) :
           m \in {matches(condition, record, schema)} })

\* the inner while loop over the records of block from offset on
RECURSIVE delete_records(_, _, _, _, _, _)
delete_records(st, block, current_block, offset, condition, schema) ==
    IF ~st.ok \/ offset >= block.free_space_offset THEN st
    ELSE Only({ IF e < 0 THEN [st EXCEPT !.ok = FALSE, !.err = "IndexError"]
                ELSE Only({ IF ~record.ok THEN [st EXCEPT !.ok = FALSE, !.err = record.err]
                            ELSE Only({ delete_records(st1, block, current_block, e + 1,
                                                       condition, schema) :
                                        st1 \in {delete_step(st, block, current_block, record.v,
                                                             condition, schema)} }) :
                            record \in {record_at(block, offset, e, schema)} }) :
                e \in {FirstSentinel(block, offset)} })

\* the outer while loop over the blocks from current_block on
RECURSIVE delete_blocks(_, _, _, _, _)
delete_blocks(st, current_block, block_count, condition, schema) ==
    IF ~st.ok \/ current_block >= block_count THEN st
    ELSE Only({ Only({ delete_blocks(st1, current_block + 1, block_count, condition, schema) :
                       st1 \in {delete_records(
                                   st, block, current_block,
                                   IF current_block = 0 THEN U32(DataSlice(block, 4, 8)) ELSE 0,
                                   condition, schema)} }) :
                block \in {read_block(st.file, current_block).v} })

\* the end of delete_record, after the loops left st
delete_flush(W, table_name, st) ==
    IF ~st.ok
    THEN [ok |-> FALSE, err |-> st.err, W |-> [W EXCEPT !.files = Put(@, table_name, st.file)],
          n |-> 0]
    ELSE Only({ IF ~w.ok
                THEN [ok |-> FALSE, err |-> w.err,
                      W |-> [W EXCEPT !.files = Put(@, table_name, st.file)], n |-> 0]
                ELSE Only({ [ok |-> u.ok, err |-> u.err, W |-> u.W, n |-> st.rows_effected] :
                            u \in {update_header(
                                      [W EXCEPT
                                          !.files = Put(@, table_name, w.v),
                                          !.tables[table_name].block_count =
                                              st.rewrite_block_num + 1,
                                          !.tables[table_name].record_count =
                                              @ - st.rows_effected],
                                      table_name)} }) :
                w \in {IF st.rewrite_block.record_count > 0
                       THEN write_block(st.file, st.rewrite_block, st.rewrite_block_num)
                       ELSE Ok(st.file)} })

\* delete_record on the manager of table_name: [ok, err, W, n], n the rows deleted
delete_record(W, table_name, condition) ==
    IF table_name \notin DOMAIN W.files
    THEN [ok |-> FALSE, err |-> "FileNotFoundError", W |-> W, n |-> 0]
    ELSE Only({ IF ~seeded.ok THEN [ok |-> FALSE, err |-> seeded.err, W |-> W, n |-> 0]
                ELSE Only({ delete_flush(W, table_name, st) :
                            st \in {delete_blocks(
                                       [file |-> W.files[table_name],
                                        rewrite_block |-> seeded.v,
                                        rewrite_block_num |-> 0 - 1, rows_effected |-> 0,
                                        ok |-> TRUE, err |-> ""],
                                       0, W.tables[table_name].block_count, condition,
                                       W.tables[table_name].schema)} }) :
                seeded \in {Only({ add_record(NewBlock, DataSlice(first_block, 0,
                                                  U32(DataSlice(first_block, 4, 8)))) :
                                   first_block \in {read_block(W.files[table_name], 0).v} })} })

(***************************************************************************)
(* TableFileManager.update_record.  update_values is a sequence of         *)
(* <<col_name, new_value>> pairs in the order of the dict's items.         *)
(***************************************************************************)
\* the inner `for col_name, new_value in update_values.items()` from pair k on
RECURSIVE assign_values(_, _, _, _)
assign_values(record_list, update_values, schema, k) ==
    IF k > Len(update_values) THEN record_list
    ELSE Only({ assign_values(
                    IF col_index # 0 /\ col_index <= Len(record_list)
                    THEN [record_list EXCEPT ![col_index] = update_values[k][2]]
                    ELSE record_list,
                    update_values, schema, k + 1) :
                col_index \in {AttrIndex(schema, update_values[k][1])} })

\* the `for record in records` loop from record i on: [ok, err, v, n]
RECURSIVE update_records(_, _, _, _, _)
update_records(records, condition, update_values, schema, i) ==
    IF i > Len(records) THEN [ok |-> TRUE, err |-> "", v |-> <<>>, n |-> 0]
    ELSE Only({ IF ~m.ok THEN [ok |-> FALSE, err |-> m.err, v |-> <<>>, n |-> 0]
                ELSE Only({ IF ~rest.ok THEN rest
                            ELSE [ok |-> TRUE, err |-> "",
                                  v |-> <<IF m.v
                                          THEN assign_values(records[i], update_values, schema, 1)
                                          ELSE records[i]>> \o rest.v,
                                  n |-> rest.n + (IF m.v THEN 1 ELSE 0)] :
                            rest \in {update_records(records, condition, update_values,
                                                     schema, i + 1)} }) :
                m \in {matches(condition, records[i], schema)} })

\* the end of update_record: the file is emptied, the header written and the
\* updated records appended; W1 is the world after read_table
update_rewrite(W1, table_name, u) ==
    Only({ IF ~h.ok THEN [ok |-> FALSE, err |-> h.err, W |-> h.W, n |-> 0]
           ELSE Only({ [ok |-> w.ok, err |-> w.err, W |-> w.W, n |-> IF w.ok THEN u.n ELSE 0] :
                       w \in {write_table(h.W, table_name, u.v)} }) :
           h \in {write_header(
                     [W1 EXCEPT !.tables[table_name].block_count = 1,
                                !.tables[table_name].record_count = 0],
                     table_name,
                     [W1.tables[table_name] EXCEPT !.block_count = 1, !.record_count = 0])} })

\* update_record on the manager of table_name: [ok, err, W, n], n the rows affected
update_record(W, table_name, condition, update_values) ==
    Only({ IF ~records.ok THEN [ok |-> FALSE, err |-> records.err, W |-> records.W, n |-> 0]
           ELSE Only({ IF ~u.ok THEN [ok |-> FALSE, err |-> u.err, W |-> records.W, n |-> 0]
                       ELSE update_rewrite(records.W, table_name, u) :
                       u \in {update_records(records.rows, condition, update_values,
                                             W.tables[table_name].schema, 1)} }) :
           records \in {read_table(W, table_name)} })

(***************************************************************************)
(* StorageManager.  Table names are byte strings (the utf-8 of the str);   *)
(* W.tables is the tables map, W.indexFiles the hash index files that      *)
(* exist, by path.  A handler gives [ok, err, W, n, rows]:                 *)
(* the exception it raises if any, the world it leaves, and what it        *)
(* returns (n for a count, rows for a list).  A message that the source    *)
(* formats with the table name is kept as its format string; the name is   *)
(* the argument of the call.                                               *)
(***************************************************************************)
Out(ok, err, W, n, rows) == [ok |-> ok, err |-> err, W |-> W, n |-> n, rows |-> rows]

information_schema_schema == <<Attribute(s_table_name, "varchar", CATALOG_NAME_SIZE)>>

\* get_table_data(table_name) with no condition and no projection
get_table_data(W, table_name) ==
    IF table_name \notin DOMAIN W.tables THEN Out(FALSE, "Table {table_name} not found.", W, 0, <<>>)
    ELSE Only({ Out(records.ok, records.err, records.W, 0, records.rows) :
                records \in {read_table(W, table_name)} })

get_table_schema(W, table_name) ==
    IF table_name \notin DOMAIN W.tables THEN Raise("{table_name} not in database", <<>>)
    ELSE Ok(W.tables[table_name].schema)

\* the projection loop of get_table_data: the requested columns of each record
project(records, projection, schema) ==
    [i \in 1..Len(records) |->
        [k \in 1..Len(projection) |-> records[i][AttrIndex(schema, projection[k])]]]

\* get_table_data(table_name, condition, projection).  Condition.evaluate takes
\* (value1, value2), so the call condition.evaluate(context) made for the first
\* record raises TypeError, which `except ValueError` does not catch
get_table_data_where(W, table_name, condition, projection) ==
    IF table_name \notin DOMAIN W.tables THEN Out(FALSE, "Table {table_name} not found.", W, 0, <<>>)
    ELSE Only({ IF ~records.ok THEN Out(FALSE, records.err, records.W, 0, <<>>)
                ELSE IF /\ ~condition.none
                        /\ table_name # s_information_schema
                        /\ records.rows # <<>>
                THEN Out(FALSE, "TypeError", records.W, 0, <<>>)
                ELSE IF Len(projection) > 0 /\ table_name # s_information_schema
                THEN IF \E k \in 1..Len(projection) :
                           AttrIndex(W.tables[table_name].schema, projection[k]) = 0
                     THEN Out(FALSE, "The column {att} is not in {table_name}",
                              records.W, 0, <<>>)
                     ELSE Out(TRUE, "", records.W, 0,
                              project(records.rows, projection, W.tables[table_name].schema))
                ELSE Out(TRUE, "", records.W, 0, records.rows) :
                records \in {read_table(W, table_name)} })

(***************************************************************************)
(* get_joined_table.  A join attribute is the str 'table.attr'; the result *)
(* is the tuple (result_records, result_attr), given as rows.              *)
(***************************************************************************)
DOT == 46

\* s.index(x) from 1, 0 when x is not in the list
IndexOf(s, x) ==
    IF \E i \in 1..Len(s) : s[i] = x
    THEN CHOOSE i \in 1..Len(s) : s[i] = x /\ \A j \in 1..(i - 1) : s[j] # x
    ELSE 0

\* parse_table_attribute: the two parts of table_attr.split('.')
parse_table_attribute(table_attr) ==
    Only({ IF Cardinality(dots) # 1 THEN Raise("ValueError", <<>>)
           ELSE Only({ Ok(<<SubSeq(table_attr, 1, d - 1),
                            SubSeq(table_attr, d + 1, Len(table_attr))>>) :
                       d \in dots }) :
           dots \in {{i \in 1..Len(table_attr) : table_attr[i] = DOT}} })

\* the attribute names of a table's schema
attributes_of(W, table_name) ==
    [k \in 1..Len(W.tables[table_name].schema) |-> W.tables[table_name].schema[k].name]

\* the names f"{table_name}.{x}" of the columns of a table
qualified(table_name, attributes) ==
    [k \in 1..Len(attributes) |-> table_name \o <<DOT>> \o attributes[k]]

\* the first loop: the records of each table, fetched with the condition
\* table_conditions[i-1] (None for the first table); i counts from 1
RECURSIVE fetch_tables(_, _, _, _)
fetch_tables(W, table_names, table_conditions, i) ==
    IF i > Len(table_names) THEN [ok |-> TRUE, err |-> "", W |-> W, table_records |-> <<>>]
    ELSE Only({ IF ~records.ok
                THEN [ok |-> FALSE, err |-> records.err, W |-> records.W,
                      table_records |-> <<>>]
                ELSE Only({ [rest EXCEPT !.table_records = <<records.rows>> \o @] :
                            rest \in {fetch_tables(records.W, table_names,
                                                   table_conditions, i + 1)} }) :
                records \in {get_table_data_where(
                                W, table_names[i],
                                IF i > 1 THEN table_conditions[i - 1] ELSE NoCondition,
                                <<>>)} })

\* the two nested loops over result_records and the records of the new table
RECURSIVE join_records(_, _, _, _, _, _)
join_records(result_records, records2, table1_attr_idx, table2_attr_idx, i, j) ==
    IF i > Len(result_records) THEN <<>>
    ELSE IF j > Len(records2)
    THEN join_records(result_records, records2, table1_attr_idx, table2_attr_idx, i + 1, 1)
    ELSE (IF PyEq(result_records[i][table1_attr_idx], records2[j][table2_attr_idx])
          THEN <<result_records[i] \o records2[j]>>
          ELSE <<>>)
         \o join_records(result_records, records2, table1_attr_idx, table2_attr_idx, i, j + 1)

\* one pair of the join loop once its sides are ordered: table2 is joined to
\* the result; st = [result_records, result_attr, processed_tables, ok, err]
join_pair(W, table_names, table_records, st, t1, t2) ==
    Only({ IF table2_idx = 0 THEN [st EXCEPT !.ok = FALSE, !.err = "StopIteration"]
           ELSE Only({ IF table1_attr_idx = 0 \/ table2_attr_idx = 0
                       THEN [st EXCEPT !.ok = FALSE, !.err = "ValueError"]
                       ELSE [st EXCEPT
                                !.result_records =
                                    join_records(@, table_records[table2_idx],
                                                 table1_attr_idx, table2_attr_idx, 1, 1),
                                !.result_attr =
                                    @ \o qualified(t2[1], attributes_of(W, t2[1])),
                                !.processed_tables = @ \cup {t2[1]}] :
                       table1_attr_idx \in {IndexOf(st.result_attr,
                                                    t1[1] \o <<DOT>> \o t1[2])},
                       table2_attr_idx \in {IndexOf(attributes_of(W, t2[1]), t2[2])} }) :
           table2_idx \in {IndexOf(table_names, t2[1])} })

\* the loop `for i in range(1, len(table_names))`, i counting from 1
RECURSIVE join_loop(_, _, _, _, _, _)
join_loop(W, table_names, join_attributes, table_records, st, i) ==
    IF i > Len(table_names) - 1 \/ ~st.ok THEN st
    ELSE Only({ IF ~t1.ok \/ ~t2.ok THEN [st EXCEPT !.ok = FALSE, !.err = "ValueError"]
                ELSE IF t2.v[1] \in st.processed_tables
                THEN join_loop(W, table_names, join_attributes, table_records,
                               join_pair(W, table_names, table_records, st, t2.v, t1.v),
                               i + 1)
                ELSE IF t1.v[1] \notin st.processed_tables
                THEN [st EXCEPT !.ok = FALSE, !.err = "Bad Join Order"]
                ELSE join_loop(W, table_names, join_attributes, table_records,
                               join_pair(W, table_names, table_records, st, t1.v, t2.v),
                               i + 1) :
                t1 \in {parse_table_attribute(join_attributes[i][1])},
                t2 \in {parse_table_attribute(join_attributes[i][2])} })

\* get_joined_table from `result_records = table_records[0]` on; fetched is
\* what the first loop left
join_tables(fetched, table_names, join_attributes, global_condition, projection) ==
    Only({ IF ~first.ok \/ IndexOf(table_names, first.v[1]) = 0
           THEN Out(FALSE, "ValueError", fetched.W, 0, <<>>)
           ELSE Only({ IF ~st.ok THEN Out(FALSE, st.err, fetched.W, 0, <<>>)
                       ELSE IF ~global_condition.none /\ st.result_records # <<>>
                       THEN Out(FALSE, "TypeError", fetched.W, 0, <<>>)
                       ELSE IF projection # <<>>
                       THEN Out(TRUE, "", fetched.W, 0,
                                <<SelectSeq(st.result_records,
                                            LAMBDA x : \E k \in 1..Len(projection) :
                                                          projection[k] = x),
                                  projection>>)
                       ELSE Out(TRUE, "", fetched.W, 0,
                                <<st.result_records, st.result_attr>>) :
                       st \in {join_loop(
                                  fetched.W, table_names, join_attributes,
                                  fetched.table_records,
                                  [result_records |->
                                       fetched.table_records[IndexOf(table_names, first.v[1])],
                                   result_attr |->
                                       qualified(first.v[1],
                                                 attributes_of(fetched.W, first.v[1])),
                                   processed_tables |-> {first.v[1]},
                                   ok |-> TRUE, err |-> ""],
                                  1)} }) :
           first \in {parse_table_attribute(join_attributes[1][1])} })

get_joined_table(W, table_names, join_attributes, table_conditions, global_condition, projection) ==
    IF Len(table_names) < 2
    THEN Out(FALSE, "At least two tables are required for join operation", W, 0, <<>>)
    ELSE IF Len(table_names) # Len(table_conditions)
    THEN Out(FALSE, "Number of table conditions must be equal number of table", W, 0, <<>>)
    ELSE IF Len(join_attributes) # Len(table_names) - 1
    THEN Out(FALSE, "Number of join attributes must be one less than number of tables",
             W, 0, <<>>)
    ELSE Only({ IF ~fetched.ok THEN Out(FALSE, fetched.err, fetched.W, 0, <<>>)
                ELSE join_tables(fetched, table_names, join_attributes, global_condition,
                                 projection) :
                fetched \in {fetch_tables(W, table_names, table_conditions, 1)} })

list_tables(W) ==
    Only({ IF ~table_data.ok THEN table_data
           ELSE IF \E i \in 1..Len(table_data.rows) : Len(table_data.rows[i]) = 0
           THEN Out(FALSE, "IndexError", table_data.W, 0, <<>>)
           ELSE [table_data EXCEPT !.rows = [i \in 1..Len(@) |-> @[i][1]]] :
           table_data \in {get_table_data(W, s_information_schema)} })

(***************************************************************************)
(* The hash index.  W.indexFiles maps the path of each index file that     *)
(* exists to the HashIndex pickled in it, a map from a key to the list of  *)
(* <<block, offset>> record ids added under it.                            *)
(***************************************************************************)
\* os.path.join("./storage", f"{table_name}-{column}-hash.pickle"): the
\* directory is the literal, whatever base_path the manager was built on
index_file_path(table_name, column) == <<"./storage", table_name, column>>

HashIndex_add(index, key, record_id) ==
    Put(index, key, (IF key \in DOMAIN index THEN index[key] ELSE <<>>) \o <<record_id>>)

HashIndex_find(index, key) == IF key \in DOMAIN index THEN index[key] ELSE <<>>

\* sha256 is not computed: digest stands for int(sha256(b).hexdigest(), 16),
\* a number fixed by the bytes hashed, and KeySpace for the 2 ** 32 keys, few
\* enough that different values share a key
RECURSIVE digest(_)
digest(b) == IF Len(b) = 0 THEN 7 ELSE (b[1] + 3 * digest(Tail(b))) % 65521

RECURSIVE Decimal(_)
Decimal(n) ==
    IF n < 0 THEN <<45>> \o Decimal(0 - n)
    ELSE IF n < 10 THEN <<48 + n>>
    ELSE Decimal(n \div 10) \o <<48 + (n % 10)>>

\* str(value)
PyStr(value) == IF value.t = "str" THEN value.s ELSE Decimal(value.i)

\* the bytes set_index and get_index hash for a value of the column:
\* int(value).to_bytes() is one unsigned byte (length 1, big-endian, unsigned
\* by default); of a float only whether float(value) raises is kept
key_bytes(value, dtype) ==
    IF dtype = "int"
    THEN Only({ IF ~n.ok THEN Raise(n.err, <<>>)
                ELSE IF n.v < 0 \/ n.v > 255 THEN Raise("OverflowError", <<>>)
                ELSE Ok(<<n.v>>) :
                n \in {PyInt(value)} })
    ELSE IF dtype = "float" THEN (IF value.t = "int" THEN Ok(<<>>) ELSE Raise("ValueError", <<>>))
    ELSE IF dtype \in {"char", "varchar"} THEN Ok(PyStr(value))
    ELSE Raise("Unsupported Data Type", <<>>)

\* int(hashlib.sha256(...).hexdigest(), 16) % (2 ** 32)
index_key(value, dtype) ==
    Only({ IF ~b.ok THEN Raise(b.err, 0) ELSE Ok(digest(b.v) % KeySpace) :
           b \in {key_bytes(value, dtype)} })

\* the inner loop of set_index on one block: every record from offset on is
\* added to the index under its key, at <<current_block, offset>>
RECURSIVE index_records(_, _, _, _, _, _, _)
index_records(block, offset, schema, attr_count, dtype, current_block, index) ==
    IF offset >= block.free_space_offset THEN Ok(index)
    ELSE Only({ IF e < 0 THEN Raise("IndexError", index)
                ELSE Only({ IF ~record.ok THEN Raise(record.err, index)
                            ELSE IF Len(record.v) < attr_count THEN Raise("IndexError", index)
                            ELSE Only({ IF ~key.ok THEN Raise(key.err, index)
                                        ELSE index_records(
                                                 block, e + 1, schema, attr_count, dtype,
                                                 current_block,
                                                 HashIndex_add(index, key.v,
                                                               <<current_block, offset>>)) :
                                        key \in {index_key(record.v[attr_count], dtype)} }) :
                            record \in {record_at(block, offset, e, schema)} }) :
                e \in {FirstSentinel(block, offset)} })

\* the outer loop of set_index over the file of the manager tfm, from
\* current_block on
RECURSIVE index_blocks(_, _, _, _, _, _)
index_blocks(file, tfm, attr_count, dtype, current_block, index) ==
    IF current_block >= tfm.block_count THEN Ok(index)
    ELSE Only({ Only({ IF ~added.ok THEN added
                       ELSE index_blocks(file, tfm, attr_count, dtype, current_block + 1,
                                         added.v) :
                       added \in {index_records(
                                     block,
                                     IF current_block = 0 THEN U32(DataSlice(block, 4, 8)) ELSE 0,
                                     tfm.schema, attr_count, dtype, current_block, index)} }) :
                block \in {read_block(file, current_block).v} })

\* set_index from `self.index = HashIndex()` on, for the column at attr_count
build_index(W, table_name, column, attr_count) ==
    Only({ IF ~t.ok THEN Out(FALSE, t.err, t.W, 0, <<>>)
           ELSE Only({ IF ~x.ok THEN Out(FALSE, x.err, t.W, 0, <<>>)
                       ELSE Out(TRUE, "",
                                [t.W EXCEPT !.indexFiles =
                                    Put(@, index_file_path(table_name, column), x.v)],
                                0, <<>>) :
                       x \in {index_blocks(t.W.files[table_name], t.tfm, attr_count,
                                           W.tables[table_name].schema[attr_count].dtype, 0,
                                           << >>)} }) :
           t \in {tfm_init(W, table_name, TRUE, W.tables[table_name].schema)} })

set_index(W, table_name, column, index_type) ==
    IF table_name \notin DOMAIN W.tables THEN Out(FALSE, "{table_name} not in database", W, 0, <<>>)
    ELSE IF index_type # "hash" THEN Out(FALSE, "ValueError", W, 0, <<>>)
    ELSE LET schema == W.tables[table_name].schema
             cols == {i \in 1..Len(schema) : schema[i].name = column}
         IN  IF cols = {} THEN Out(FALSE, "Exception", W, 0, <<>>)
             ELSE build_index(W, table_name, column, CHOOSE i \in cols : \A j \in cols : j <= i)

\* the result of get_index: the list rows, or None when none holds
Lookup(ok, err, W, rows, none) ==
    [ok |-> ok, err |-> err, W |-> W, rows |-> rows, none |-> none]

\* the loop of get_index over the record ids found, from the i-th on; with no
\* such column attr_count is -1 and record[attr_count] is the last value
RECURSIVE index_lookup(_, _, _, _, _, _)
index_lookup(file, schema, index_result, attr_count, value, i) ==
    IF i > Len(index_result) THEN Ok(<<>>)
    ELSE Only({ IF ~block.ok THEN Raise(block.err, <<>>)
                ELSE Only({ IF e < 0 THEN Raise("IndexError", <<>>)
                            ELSE Only({ IF ~record.ok THEN Raise(record.err, <<>>)
                                        ELSE IF Len(record.v) = 0 THEN Raise("IndexError", <<>>)
                                        ELSE Only({ IF ~rest.ok THEN rest
                                                    ELSE IF PyEq(record.v[IF attr_count = 0
                                                                          THEN Len(record.v)
                                                                          ELSE attr_count],
                                                                 value)
                                                    THEN Ok(<<record.v>> \o rest.v)
                                                    ELSE rest :
                                                    rest \in {index_lookup(
                                                                 file, schema, index_result,
                                                                 attr_count, value, i + 1)} }) :
                                        record \in {record_at(block.v, index_result[i][2], e,
                                                              schema)} }) :
                            e \in {FirstSentinel(block.v, index_result[i][2])} }) :
                block \in {read_block(file, index_result[i][1])} })

\* get_index from the computed key on
index_find(W, table_name, column, value, key) ==
    Only({ IF ~schema.ok THEN Lookup(FALSE, schema.err, W, <<>>, FALSE)
           ELSE Only({ IF ~t.ok THEN Lookup(FALSE, t.err, t.W, <<>>, FALSE)
                       ELSE Only({ Lookup(result.ok, result.err, t.W, result.v, FALSE) :
                                   result \in {index_lookup(
                                                  t.W.files[table_name], t.tfm.schema,
                                                  HashIndex_find(
                                                      W.indexFiles[index_file_path(table_name,
                                                                                   column)],
                                                      key),
                                                  IF \E i \in 1..Len(schema.v) :
                                                        schema.v[i].name = column
                                                  THEN CHOOSE i \in 1..Len(schema.v) :
                                                          /\ schema.v[i].name = column
                                                          /\ \A j \in (i + 1)..Len(schema.v) :
                                                                schema.v[j].name # column
                                                  ELSE 0,
                                                  value, 1)} }) :
                       t \in {tfm_init(W, table_name, TRUE, schema.v)} }) :
           schema \in {get_table_schema(W, table_name)} })

get_index(W, table_name, column, value, dtype) ==
    IF index_file_path(table_name, column) \notin DOMAIN W.indexFiles
    THEN Lookup(TRUE, "", W, <<>>, TRUE)
    ELSE Only({ IF ~key.ok THEN Lookup(FALSE, key.err, W, <<>>, FALSE)
                ELSE index_find(W, table_name, column, value, key.v) :
                key \in {index_key(value, dtype)} })

\* the loop of update_index from attribute i on
RECURSIVE update_index_from(_, _, _)
update_index_from(W, table_name, i) ==
    IF i > Len(W.tables[table_name].schema) THEN Out(TRUE, "", W, 0, <<>>)
    ELSE IF index_file_path(table_name, W.tables[table_name].schema[i].name)
               \in DOMAIN W.indexFiles
    THEN Only({ IF ~x.ok THEN x ELSE update_index_from(x.W, table_name, i + 1) :
                x \in {set_index(W, table_name, W.tables[table_name].schema[i].name, "hash")} })
    ELSE update_index_from(W, table_name, i + 1)

update_index(W, table_name) ==
    IF table_name \notin DOMAIN W.tables THEN Out(FALSE, "{table_name} not in database", W, 0, <<>>)
    ELSE update_index_from(W, table_name, 1)

delete_index(W, table_name) ==
    IF table_name \notin DOMAIN W.tables THEN Out(FALSE, "{table_name} not in database", W, 0, <<>>)
    ELSE Out(TRUE, "",
             [W EXCEPT !.indexFiles =
                 [x \in {y \in DOMAIN @ :
                            ~\E i \in 1..Len(W.tables[table_name].schema) :
                                y = index_file_path(table_name,
                                                    W.tables[table_name].schema[i].name)}
                     |-> @[x]]],
             0, <<>>)

\* a create_table that leaves the catalog alone
add_nothing(W, table_name) == Res(TRUE, "", W)

\* __add_table_to_information_schema
add_table_to_information_schema(W, table_name) ==
    write_table(W, s_information_schema, << <<StrV(table_name)>> >>)

\* a create_table without the test of line 47
create_table_unchecked(W, table_name, schema) ==
    Only({ IF ~table_manager.ok
           THEN Out(FALSE, table_manager.err, table_manager.W, 0, <<>>)
           ELSE Only({ Out(a.ok, a.err, a.W, 0, <<>>) :
                       a \in {add_table_to_information_schema(
                                 [table_manager.W EXCEPT
                                     !.tables = Put(@, table_name, table_manager.tfm)],
                                 table_name)} }) :
           table_manager \in {tfm_init(W, table_name, TRUE, schema)} })

create_table(W, table_name, schema) ==
    IF table_name \in DOMAIN W.tables THEN Out(FALSE, "Table {table_name} already exists.", W, 0, <<>>)
    ELSE Only({ IF ~table_manager.ok
                THEN Out(FALSE, table_manager.err, table_manager.W, 0, <<>>)
                ELSE Only({ Out(a.ok, a.err, a.W, 0, <<>>) :
                            a \in {add_table_to_information_schema(
                                      [table_manager.W EXCEPT
                                          !.tables = Put(@, table_name, table_manager.tfm)],
                                      table_name)} }) :
                table_manager \in {tfm_init(W, table_name, TRUE, schema)} })

insert_into_table(W, table_name, values) ==
    IF table_name \notin DOMAIN W.tables THEN Out(FALSE, "{table_name} not in database", W, 0, <<>>)
    ELSE Only({ IF ~w.ok THEN Out(FALSE, w.err, w.W, 0, <<>>)
                ELSE Only({ IF ~u.ok THEN u ELSE Out(TRUE, "", u.W, Len(values), <<>>) :
                            u \in {update_index(w.W, table_name)} }) :
                w \in {write_table(W, table_name, values)} })

delete_table_record(W, table_name, condition) ==
    IF table_name \notin DOMAIN W.tables THEN Out(FALSE, "Table {table_name} not found.", W, 0, <<>>)
    ELSE Only({ IF ~returned.ok THEN Out(FALSE, returned.err, returned.W, 0, <<>>)
                ELSE Only({ IF ~u.ok THEN u ELSE Out(TRUE, "", u.W, returned.n, <<>>) :
                            u \in {update_index(returned.W, table_name)} }) :
                returned \in {delete_record(W, table_name, condition)} })

update_table(W, table_name, update_values, condition) ==
    IF table_name \notin DOMAIN W.tables THEN Out(FALSE, "KeyError", W, 0, <<>>)
    ELSE Only({ Out(r.ok, r.err, r.W, r.n, <<>>) :
                r \in {update_record(W, table_name, condition, update_values)} })

\* get_max_record_size: the sum over the attributes of the schema
RECURSIVE get_max_record_size(_)
get_max_record_size(attributes) ==
    IF attributes = <<>> THEN 0
    ELSE (IF attributes[1].dtype = "int" THEN 4
          ELSE IF attributes[1].dtype = "float" THEN 4
          ELSE IF attributes[1].dtype = "char" THEN attributes[1].size
          ELSE 2 + attributes[1].size)
         + get_max_record_size(Tail(attributes))

\* get_unique_attr_count: per attribute, the number of distinct values in the
\* records read_table returns
get_unique_attr_count(W, table_name) ==
    Only({ IF ~records.ok THEN Out(FALSE, records.err, records.W, 0, <<>>)
           ELSE Out(TRUE, "", records.W, 0,
                    [i \in 1..Len(W.tables[table_name].schema) |->
                        Cardinality({records.rows[k][i] : k \in 1..Len(records.rows)})]) :
           records \in {read_table(W, table_name)} })

\* the table_stats dict of get_stats for one table, its entries in the order
\* they are evaluated
table_stats(W, table_name) ==
    Only({ IF tb_manager.block_count = 0 THEN Out(FALSE, "ZeroDivisionError", W, 0, <<>>)
           ELSE Only({ IF ~v_a_r.ok THEN v_a_r
                       ELSE Out(TRUE, "", v_a_r.W, 0,
                                <<[table |-> table_name,
                                   n_r |-> tb_manager.record_count,
                                   b_r |-> tb_manager.block_count,
                                   l_r |-> get_max_record_size(tb_manager.schema),
                                   f_r |-> (tb_manager.record_count + tb_manager.block_count - 1)
                                               \div tb_manager.block_count,
                                   v_a_r |-> v_a_r.rows]>>) :
                       v_a_r \in {get_unique_attr_count(W, table_name)} }) :
           tb_manager \in {W.tables[table_name]} })

\* the loop of get_stats over the tables named
RECURSIVE stats_loop(_, _)
stats_loop(W, names) ==
    IF names = {} THEN Out(TRUE, "", W, 0, <<>>)
    ELSE Only({ Only({ IF ~s.ok THEN s
                       ELSE Only({ IF ~rest.ok THEN rest
                                   ELSE [rest EXCEPT !.rows = s.rows \o @] :
                                   rest \in {stats_loop(s.W, names \ {table_name})} }) :
                       s \in {table_stats(W, table_name)} }) :
                table_name \in {CHOOSE x \in names : TRUE} })

get_stats(W) == stats_loop(W, DOMAIN W.tables \ {s_information_schema})

\* a delete_table whose removal of the catalog record (lines 223-225) is
\* skipped, so that the call goes on to lines 228-235
delete_table_unrecorded(W, table_name) ==
    IF table_name \notin DOMAIN W.tables THEN Out(FALSE, "Table {table_name} not found.", W, 0, <<>>)
    ELSE Only({ IF table_name \notin DOMAIN d.W.files
                THEN Out(FALSE, "Table {table_name} not found.",
                         [d.W EXCEPT !.tables = Drop(@, table_name)], 0, <<>>)
                ELSE Out(TRUE, "",
                         [d.W EXCEPT !.tables = Drop(@, table_name),
                                     !.files = Drop(@, table_name)], 0, <<>>) :
                d \in {delete_index(W, table_name)} })

delete_table(W, table_name) ==
    IF table_name \notin DOMAIN W.tables THEN Out(FALSE, "Table {table_name} not found.", W, 0, <<>>)
    ELSE Only({ IF ~d.ok THEN d
                ELSE IF table_name \notin DOMAIN d.W.files
                THEN Out(FALSE, "Table {table_name} not found.",
                         [d.W EXCEPT !.tables = Drop(@, table_name)], 0, <<>>)
                ELSE Out(TRUE, "",
                         [d.W EXCEPT !.tables = Drop(@, table_name),
                                     !.files = Drop(@, table_name)], 0, <<>>) :
                d \in {delete_table_record(
                          delete_index(W, table_name).W, s_information_schema,
                          Condition(s_table_name, "=", <<QUOTE>> \o table_name \o <<QUOTE>>))} })

\* the name __initialize_information_schema takes from a catalog value
catalog_name(raw) ==
    IF raw[1] = QUOTE /\ raw[Len(raw)] = QUOTE THEN SubSeq(raw, 2, Len(raw) - 1) ELSE raw

\* the loop of __initialize_information_schema over the catalog rows from i on
RECURSIVE load_tables(_, _, _)
load_tables(W, table_names, i) ==
    IF i > Len(table_names) THEN Out(TRUE, "", W, 0, <<>>)
    ELSE IF Len(table_names[i]) = 0 \/ table_names[i][1].t # "str" \/ table_names[i][1].s = <<>>
    THEN Out(FALSE, "IndexError", W, 0, <<>>)
    ELSE Only({ IF ~t.ok THEN Out(FALSE, t.err, t.W, 0, <<>>)
                ELSE load_tables(
                         [t.W EXCEPT !.tables = Put(@, catalog_name(table_names[i][1].s), t.tfm)],
                         table_names, i + 1) :
                t \in {tfm_init(W, catalog_name(table_names[i][1].s), FALSE, <<>>)} })

\* StorageManager(base_path) on the directory that holds files and indexFiles:
\* a new tables map and a new, empty page cache
StorageManager(files0, indexFiles0) ==
    Only({ IF ~t.ok THEN Out(FALSE, t.err, t.W, 0, <<>>)
           ELSE Only({ IF ~table_names.ok THEN table_names
                       ELSE load_tables(table_names.W, table_names.rows, 1) :
                       table_names \in {get_table_data(
                                           [t.W EXCEPT !.tables =
                                               Put(@, s_information_schema, t.tfm)],
                                           s_information_schema)} }) :
           t \in {tfm_init([files |-> files0, tables |-> << >>, buffer |-> << >>,
                            indexFiles |-> indexFiles0],
                           s_information_schema, TRUE, information_schema_schema)} })

(***************************************************************************)
(* The inputs of the model: one user table t with the schema               *)
(* (id int, name varchar), and the catalog.                                *)
(***************************************************************************)
s_t == <<116>>
s_ghost == <<103, 104, 111, 115, 116>>
s_A == <<65>>
s_1 == <<49>>
s_2 == <<50>>
s_7 == <<55>>
s_id_plus_1 == <<105, 100, 32, 43, 32, 49>>

user_schema == <<Attribute(s_id, "int", 4), Attribute(s_name, "varchar", MaxNameSize)>>

TableNames == {s_t, s_information_schema}

Batches(table_name) ==
    IF table_name = s_information_schema THEN { << <<StrV(s_ghost)>> >> }
    ELSE { << <<IntV(1), StrV(s_A)>> >>,
           << <<IntV(1), StrV(s_A)>>, <<IntV(2), StrV(s_A)>> >>,
           << <<IntV(SENTINEL), StrV(s_A)>> >> }

Conditions(table_name) ==
    IF table_name = s_information_schema
    THEN { Condition(s_table_name, "=", <<QUOTE>> \o s_ghost \o <<QUOTE>>) }
    ELSE { Condition(s_id, "=", s_1), Condition(s_id, ">=", s_2) }

Assignments == { << <<s_id, StrV(s_7)>> >>, << <<s_id, StrV(s_id_plus_1)>> >> }

(***************************************************************************)
(* The state machine.  last is the call made last and its outcome.  hist   *)
(* keeps rows[T], the tuples inserted into T since its creation; pure[T],  *)
(* whether only successful insert_into_table calls touched T since;        *)
(* created, the user tables created and not deleted; and clean, whether    *)
(* every call so far was a successful create_table, insert_into_table or   *)
(* delete_table (reads and restarts aside).                                *)
(***************************************************************************)
World == [files |-> files, tables |-> tables, buffer |-> buffer, indexFiles |-> indexFiles]

Call(op, name, values, condition, assignments) ==
    [op |-> op, name |-> name, values |-> values, condition |-> condition,
     assignments |-> assignments]

\* the number of records a scan of table_name returns, 0 when it raises
ScanLen(W, table_name) ==
    \* read_table(...).rows is <<>> when the scan raises
    Len(read_table(W, table_name).rows)

Room(table_name) == IF table_name = s_information_schema THEN MaxCatalogRows ELSE MaxRecords

HasRoom(table_name, n) ==
    table_name \in DOMAIN tables =>
        /\ tables[table_name].record_count + n <= Room(table_name)
        /\ ScanLen(World, table_name) + n <= Room(table_name)

\* the transition of a call with outcome out
Step(call, out, hist1) ==
    /\ files' = out.W.files
    /\ tables' = out.W.tables
    /\ buffer' = out.W.buffer
    /\ indexFiles' = out.W.indexFiles
    /\ last' = [call |-> call, ok |-> out.ok, err |-> out.err, n |-> out.n, rows |-> out.rows]
    /\ hist' = hist1

Touched(names, stillClean) ==
    [hist EXCEPT !.pure = [x \in DOMAIN @ |-> @[x] /\ x \notin names],
                 !.clean = @ /\ stillClean]

Init ==
    \E out \in {StorageManager(<< >>, << >>)} :
        /\ files = out.W.files
        /\ tables = out.W.tables
        /\ buffer = out.W.buffer
        /\ indexFiles = out.W.indexFiles
        /\ last = [call |-> Call("StorageManager", <<>>, <<>>, NoCondition, <<>>),
                   ok |-> out.ok, err |-> out.err, n |-> 0, rows |-> <<>>]
        /\ hist = [rows |-> [x \in TableNames |-> <<>>],
                   pure |-> [x \in TableNames |-> x = s_information_schema],
                   created |-> {}, clean |-> TRUE]

CreateTable ==
    \E table_name \in TableNames :
        /\ HasRoom(s_information_schema, 1) \/ table_name \in DOMAIN tables
        /\ \E out \in {create_table(World, table_name, user_schema)} :
              Step(Call("create_table", table_name, <<>>, NoCondition, <<>>), out,
                   IF out.ok
                   THEN [hist EXCEPT !.rows[table_name] = <<>>,
                                     !.created = @ \cup {table_name},
                                     !.pure = [x \in DOMAIN @ |->
                                                  IF x = table_name THEN TRUE
                                                  ELSE @[x] /\ x # s_information_schema]]
                   ELSE Touched({}, FALSE))

InsertIntoTable ==
    \E table_name \in TableNames :
        \E values \in Batches(table_name) :
            /\ HasRoom(table_name, Len(values))
            /\ \E out \in {insert_into_table(World, table_name, values)} :
                  Step(Call("insert_into_table", table_name, values, NoCondition, <<>>), out,
                       IF out.ok
                       THEN [hist EXCEPT !.rows[table_name] = @ \o values]
                       ELSE Touched({table_name}, FALSE))

DeleteTableRecord ==
    \E table_name \in TableNames :
        \E condition \in Conditions(table_name) :
            \E out \in {delete_table_record(World, table_name, condition)} :
                Step(Call("delete_table_record", table_name, <<>>, condition, <<>>), out,
                     Touched({table_name}, FALSE))

UpdateTable ==
    \E condition \in {Condition(s_id, "=", s_1), NoCondition} :
        \E assignments \in Assignments :
            /\ HasRoom(s_t, 0)
            /\ \E out \in {update_table(World, s_t, assignments, condition)} :
                  Step(Call("update_table", s_t, <<>>, condition, assignments), out,
                       Touched({s_t}, FALSE))

DeleteTable ==
    \E table_name \in TableNames :
        \E out \in {delete_table(World, table_name)} :
            Step(Call("delete_table", table_name, <<>>, NoCondition, <<>>), out,
                 [Touched({table_name, s_information_schema}, out.ok) EXCEPT
                     !.created = IF out.ok THEN @ \ {table_name} ELSE @])

SetIndex ==
    \E out \in {set_index(World, s_t, s_name, "hash")} :
        Step(Call("set_index", s_t, <<s_name>>, NoCondition, <<>>), out, Touched({}, FALSE))

GetTableData ==
    \E out \in {get_table_data(World, s_t)} :
        Step(Call("get_table_data", s_t, <<>>, NoCondition, <<>>), out, hist)

ListTables ==
    \E out \in {list_tables(World)} :
        Step(Call("list_tables", <<>>, <<>>, NoCondition, <<>>), out, hist)

GetStats ==
    \E out \in {get_stats(World)} :
        Step(Call("get_stats", <<>>, <<>>, NoCondition, <<>>), out, hist)

\* a second StorageManager is constructed on the same base_path; it replaces
\* the first when its construction succeeds
Restart ==
    \E out \in {StorageManager(files, indexFiles)} :
        Step(Call("StorageManager", <<>>, <<>>, NoCondition, <<>>),
             IF out.ok THEN out ELSE [out EXCEPT !.W = World], hist)

Next ==
    \/ CreateTable
    \/ InsertIntoTable
    \/ DeleteTableRecord
    \/ UpdateTable
    \/ DeleteTable
    \/ SetIndex
    \/ GetTableData
    \/ ListTables
    \/ GetStats
    \/ Restart

Spec == Init /\ [][Next]_vars

(***************************************************************************)
(* Properties.                                                             *)
(***************************************************************************)
\* a tuple as a scan returns it: the varchar values wrapped in single quotes
Wrapped(record) ==
    [i \in 1..Len(record) |->
        IF record[i].t = "str" THEN StrV(<<QUOTE>> \o record[i].s \o <<QUOTE>>) ELSE record[i]]

WrappedAll(rows) == [i \in 1..Len(rows) |-> Wrapped(rows[i])]

\* a catalog value without its single-quote wrapper
Unwrapped(value) ==
    IF Len(value.s) >= 2 /\ value.s[1] = QUOTE /\ value.s[Len(value.s)] = QUOTE
    THEN SubSeq(value.s, 2, Len(value.s) - 1)
    ELSE value.s

\* the scan of table T as get_table_data makes it
Scan(T) == read_table(World, T)

\* the subsequence of rows whose positions are in keep
RECURSIVE SelectRows(_, _, _)
SelectRows(rows, keep, i) ==
    IF i > Len(rows) THEN <<>>
    ELSE (IF i \in keep THEN <<rows[i]>> ELSE <<>>) \o SelectRows(rows, keep, i + 1)

\* the positions of the rows for which condition holds (every row when absent)
Matching(rows, condition, schema) ==
    {i \in 1..Len(rows) : condition.none \/ matches(condition, rows[i], schema).v}

\* C1: after successful insert_into_table calls only, get_table_data(T) returns
\* exactly the inserted tuples in insertion order, the varchar values wrapped
\* in single quotes, and insert_into_table returns the number of tuples passed.
C1_ScanReturnsInserted ==
    /\ \A T \in DOMAIN tables \cap TableNames :
          hist.pure[T] =>
              \E out \in {get_table_data(World, T)} :
                  out.ok /\ out.rows = WrappedAll(hist.rows[T])
    /\ (last.call.op = "insert_into_table" /\ last.ok) => last.n = Len(last.call.values)

\* C2: in every state the record_count of every table equals the number of
\* records a scan of the table returns.
C2_RecordCountIsScanLength ==
    \A T \in DOMAIN tables :
        \E scan \in {Scan(T)} : scan.ok /\ Len(scan.rows) = tables[T].record_count

\* the scan of table T in the state after a step
ScanAfter(T) == read_table(World', T)

\* C3: delete_table_record(T, c) returns the number of records of T for which
\* c is true, and afterwards a scan of T returns exactly the records for
\* which c was not true, unchanged and in their original order.
C3_DeleteRemovesMatching ==
    [][(last'.call.op = "delete_table_record" /\ last'.call.name \in DOMAIN tables) =>
          \E T \in {last'.call.name} :
              \E before \in {Scan(T)}, after \in {ScanAfter(T)} :
                  before.ok =>
                      \E hit \in {Matching(before.rows, last'.call.condition,
                                           tables[T].schema)} :
                          /\ last'.ok
                          /\ last'.n = Cardinality(hit)
                          /\ after.ok
                          /\ after.rows = SelectRows(before.rows,
                                                     (1..Len(before.rows)) \ hit, 1)]_vars

\* the value of an assignment's expression over a record's pre-update values:
\* an integer literal, or the id column plus one
ExpressionValue(expression, record) ==
    IF expression.s = s_id_plus_1 THEN IntV(record[1].i + 1)
    ELSE IntV(DigitsValue(expression.s, Len(expression.s)))

\* record with every assigned column replaced by the value of its expression
RECURSIVE Assigned(_, _, _, _, _)
Assigned(record, old, assignments, schema, k) ==
    IF k > Len(assignments) THEN record
    ELSE Assigned([record EXCEPT ![AttrIndex(schema, assignments[k][1])] =
                                     ExpressionValue(assignments[k][2], old)],
                  old, assignments, schema, k + 1)

\* C4: update_table(T, assignments, c) returns the number of records for which
\* c is true (all when c is absent); afterwards a scan of T has the same
\* number of records in the same order, each matching record with every
\* assigned column replaced by the value of its expression over the record's
\* pre-update values, everything else unchanged.
C4_UpdateReplacesMatching ==
    [][(last'.call.op = "update_table" /\ last'.call.name \in DOMAIN tables) =>
          \E T \in {last'.call.name} :
              \E before \in {Scan(T)}, after \in {ScanAfter(T)} :
                  before.ok =>
                      \E hit \in {Matching(before.rows, last'.call.condition,
                                           tables[T].schema)} :
                          /\ last'.ok
                          /\ last'.n = Cardinality(hit)
                          /\ after.ok
                          /\ after.rows =
                                [i \in 1..Len(before.rows) |->
                                    IF i \in hit
                                    THEN Assigned(before.rows[i], before.rows[i],
                                                  last'.call.assignments,
                                                  tables[T].schema, 1)
                                    ELSE before.rows[i]]]_vars

\* C5: a TableFileManager constructed on any table file validates the magic
\* and the sentinel and loads the schema, record_count and block_count that
\* the writer last persisted in block 0: the header built from the loaded
\* fields is the header in the file.
C5_HeaderRoundTrip ==
    \A T \in DOMAIN files :
        \E h \in {read_header(files[T])} :
            /\ h.ok
            /\ \E header \in {HeaderBytes(h.v)} :
                  DataSlice(read_block(files[T], 0).v, 0, Len(header)) = header

\* C6: after successful create_table, insert_into_table and delete_table calls
\* only, constructing a new StorageManager on the same base_path succeeds, its
\* tables map holds information_schema and exactly the user tables created and
\* not deleted, and each returns the same records as before the restart.
C6_RestartRebuildsTables ==
    [][(last'.call.op = "StorageManager" /\ hist.clean) =>
          /\ last'.ok
          /\ DOMAIN tables' = {s_information_schema} \cup hist.created
          /\ \A T \in hist.created :
                get_table_data(World', T).rows = get_table_data(World, T).rows]_vars

\* C7: in every state the names list_tables() returns, without their
\* single-quote wrapper, are exactly the keys of the tables map other than
\* information_schema.
C7_CatalogConsistency ==
    \E out \in {list_tables(World)} :
        /\ out.ok
        /\ {Unwrapped(out.rows[i]) : i \in 1..Len(out.rows)}
              = DOMAIN tables \ {s_information_schema}

\* what C8 states of the table called name, but for its entry in list_tables()
Created(name) ==
    /\ name \in DOMAIN files
    /\ \E schema \in {get_table_schema(World, name)} : schema.ok /\ schema.v = user_schema
    /\ \E scan \in {Scan(name)} : scan.ok /\ scan.rows = <<>>
    /\ tables[name].record_count = 0
    /\ tables[name].block_count = 1

\* name is among the values list_tables() returns
Listed(W, name) ==
    \E out \in {list_tables(W)} :
        out.ok /\ \E i \in 1..Len(out.rows) : out.rows[i] = StrV(name)

\* C8 as stated: after a successful create_table(name, schema) the file of the
\* table exists, list_tables() contains the name, get_table_schema(name) is
\* the schema passed, and the table is empty with record_count 0 and
\* block_count 1.
C8_CreateTableListsName ==
    (last.call.op = "create_table" /\ last.ok) =>
        Created(last.call.name) /\ Listed(World, last.call.name)

\* C8: after a successful create_table(name, schema) the file of the table
\* exists, list_tables() contains the name wrapped in single quotes,
\* get_table_schema(name) is the schema passed, and the table is empty with
\* record_count 0 and block_count 1.
C8_CreateTableListsWrappedName ==
    (last.call.op = "create_table" /\ last.ok) =>
        Created(last.call.name) /\ Listed(World, <<QUOTE>> \o last.call.name \o <<QUOTE>>)

\* a create_table of the user table t has just succeeded
C8_Witness ==
    last.call.op = "create_table" /\ last.ok /\ last.call.name = s_t /\ Created(s_t)

\* C9: create_table(name, schema) for a name that is a key of the tables map
\* fails with 'Table <name> already exists.' and leaves the files, the
\* managers of the tables map, the cached pages and so every table's schema
\* and records and the catalog rows unchanged.
C9_DuplicateCreateRefused ==
    [][(last'.call.op = "create_table" /\ last'.call.name \in DOMAIN tables) =>
          /\ ~last'.ok
          /\ last'.err = "Table {table_name} already exists."
          /\ UNCHANGED <<files, tables, buffer, indexFiles>>]_vars

\* a create_table of the table t, which holds records, has just been refused
C9_Witness ==
    /\ last.call.op = "create_table"
    /\ last.call.name = s_t
    /\ last.err = "Table {table_name} already exists."
    /\ tables[s_t].record_count > 0

\* C10: delete_table(name) of a table of the tables map completes, and after
\* it the table file no longer exists, list_tables() no longer contains the
\* name, the name is not in the tables map so that get_table_data(name) fails
\* with not-found, no index file of the table remains, and every other
\* table's file, records and catalog row are unchanged.
C10_DeleteTableRemoves ==
    [][(last'.call.op = "delete_table" /\ last'.call.name \in DOMAIN tables) =>
          \E name \in {last'.call.name} :
              /\ last'.ok
              /\ name \notin DOMAIN files'
              /\ ~Listed(World', <<QUOTE>> \o name \o <<QUOTE>>)
              /\ name \notin DOMAIN tables'
              /\ get_table_data(World', name).err = "Table {table_name} not found."
              /\ \A x \in DOMAIN indexFiles' : x[2] # name
              /\ \A T \in DOMAIN tables \ {name, s_information_schema} :
                    /\ T \in DOMAIN tables'
                    /\ files'[T] = files[T]
                    /\ ScanAfter(T) = Scan(T)
                    /\ Listed(World', <<QUOTE>> \o T \o <<QUOTE>>)
                          = Listed(World, <<QUOTE>> \o T \o <<QUOTE>>)]_vars

\* the not-found errors: the ValueError of get_table_data and the ValueError
\* with which the other handlers name a table that is not in the database
NotFound == {"Table {table_name} not found.", "{table_name} not in database"}

\* the outcomes of the operations that take a table name and return
\* [ok, err, W, n, rows], called on the current state with that name
CallsOn(name) ==
    {get_table_data(World, name),
     delete_table(World, name),
     set_index(World, name, s_name, "hash"),
     update_index(World, name)}
    \cup {insert_into_table(World, name, values) : values \in Batches(name)}
    \cup {delete_table_record(World, name, condition) : condition \in Conditions(name)}
    \cup {update_table(World, name, assignments, condition) :
             assignments \in Assignments, condition \in Conditions(name)}

\* C11: every operation that takes a table name, called with a name that is
\* not in the tables map, fails with the not-found ValueError and changes no
\* table file, catalog row or index file.
C11_UnknownTableNotFound ==
    \A name \in TableNames \ DOMAIN tables :
        /\ \A out \in CallsOn(name) : ~out.ok /\ out.err \in NotFound /\ out.W = World
        /\ \E schema \in {get_table_schema(World, name)} :
              ~schema.ok /\ schema.err \in NotFound

s_age == <<97, 103, 101>>

\* the projections asked for: none, both columns in the other order, one
\* column, and a column the schema of t does not have
Projections == {<<>>, <<s_name, s_id>>, <<s_name>>, <<s_id, s_age>>}

\* C12: get_table_data(name, condition, projection) on a user table returns,
\* in scan order, exactly the records for which the condition is true (all
\* when none is given), each with the requested columns in the requested
\* order; if a requested column is not in the schema the call fails without
\* rows.
C12_SelectFiltersAndProjects ==
    (s_t \in DOMAIN tables /\ Scan(s_t).ok) =>
        \A condition \in Conditions(s_t) \cup {NoCondition}, projection \in Projections :
            \E out \in {get_table_data_where(World, s_t, condition, projection)},
               schema \in {tables[s_t].schema} :
                IF \E k \in 1..Len(projection) : AttrIndex(schema, projection[k]) = 0
                THEN ~out.ok /\ out.rows = <<>>
                ELSE /\ out.ok
                     /\ \E kept \in {SelectRows(Scan(s_t).rows,
                                                Matching(Scan(s_t).rows, condition, schema),
                                                1)} :
                           out.rows =
                               IF projection = <<>> THEN kept
                               ELSE [i \in 1..Len(kept) |->
                                        [k \in 1..Len(projection) |->
                                            kept[i][AttrIndex(schema, projection[k])]]]

(***************************************************************************)
(* Joins.  A second specification with the two user tables t and u, both   *)
(* of user_schema, and get_joined_table called on them and on the catalog. *)
(* hist is not kept here.  The last call holds table_names as its name,    *)
(* join_attributes as its values and table_conditions as its assignments;  *)
(* its rows are the tuple (result_records, result_attr) returned.          *)
(***************************************************************************)
s_u == <<117>>
s_B == <<66>>

JoinTables == {s_t, s_u}

JoinBatches(table_name) ==
    Only({ { << <<IntV(1), StrV(name)>> >>,
             << <<IntV(2), StrV(name)>> >>,
             << <<IntV(1), StrV(name)>>, <<IntV(2), StrV(name)>> >> } :
           name \in {IF table_name = s_t THEN s_A ELSE s_B} })

\* the str 'table.attr'
Ref(table_name, attr) == table_name \o <<DOT>> \o attr

JoinCall(table_names, join_attributes, table_conditions) ==
    [table_names |-> table_names, join_attributes |-> join_attributes,
     table_conditions |-> table_conditions]

JoinCalls ==
    { JoinCall(<<s_t, s_u>>, << <<Ref(s_t, s_id), Ref(s_u, s_id)>> >>,
               <<NoCondition, NoCondition>>),
      JoinCall(<<s_t, s_u>>, << <<Ref(s_u, s_id), Ref(s_t, s_id)>> >>,
               <<NoCondition, NoCondition>>),
      JoinCall(<<s_t, s_u>>, << <<Ref(s_t, s_id), Ref(s_u, s_id)>> >>,
               <<NoCondition, Condition(s_id, "=", s_1)>>),
      JoinCall(<<s_t, s_u>>, << <<Ref(s_t, s_id), Ref(s_u, s_id)>> >>,
               <<Condition(s_id, "=", s_1), NoCondition>>),
      JoinCall(<<s_t, s_u>>, << <<Ref(s_t, s_id), Ref(s_t, s_id)>> >>,
               <<NoCondition, NoCondition>>),
      JoinCall(<<s_t, s_u, s_information_schema>>,
               << <<Ref(s_t, s_id), Ref(s_u, s_id)>>,
                  <<Ref(s_information_schema, s_table_name),
                    Ref(s_information_schema, s_table_name)>> >>,
               <<NoCondition, NoCondition, NoCondition>>),
      JoinCall(<<s_t, s_u, s_information_schema>>,
               << <<Ref(s_t, s_id), Ref(s_u, s_id)>>,
                  <<Ref(s_u, s_id), Ref(s_t, s_id)>> >>,
               <<NoCondition, NoCondition, NoCondition>>) }

CreateJoinTable ==
    \E table_name \in JoinTables :
        /\ HasRoom(s_information_schema, 1) \/ table_name \in DOMAIN tables
        /\ \E out \in {create_table(World, table_name, user_schema)} :
              Step(Call("create_table", table_name, <<>>, NoCondition, <<>>), out, hist)

InsertJoinRows ==
    \E table_name \in JoinTables :
        \E values \in JoinBatches(table_name) :
            /\ HasRoom(table_name, Len(values))
            /\ \E out \in {insert_into_table(World, table_name, values)} :
                  Step(Call("insert_into_table", table_name, values, NoCondition, <<>>),
                       out, hist)

GetJoinedTable ==
    \E c \in JoinCalls :
        \E out \in {get_joined_table(World, c.table_names, c.join_attributes,
                                     c.table_conditions, NoCondition, <<>>)} :
            Step(Call("get_joined_table", c.table_names, c.join_attributes, NoCondition,
                      c.table_conditions),
                 out, hist)

JoinNext ==
    \/ CreateJoinTable
    \/ InsertJoinRows
    \/ GetJoinedTable

JoinSpec == Init /\ [][JoinNext]_vars

\* the records of T for which condition is true, in scan order
Filtered(T, condition) ==
    SelectRows(Scan(T).rows, Matching(Scan(T).rows, condition, tables[T].schema), 1)

\* the two lists hold the same rows, each as many times
SameRows(a, b) ==
    /\ Len(a) = Len(b)
    /\ \A i \in 1..Len(a) :
          Cardinality({j \in 1..Len(a) : a[j] = a[i]})
              = Cardinality({j \in 1..Len(b) : b[j] = a[i]})

\* the side <<table, attr>> of a join pair that names table T
SideOf(pair, T) ==
    CHOOSE side \in {parse_table_attribute(pair[1]).v, parse_table_attribute(pair[2]).v} :
        side[1] = T

\* the concatenations r1 + r2 of the records of R1 and R2 that agree on the
\* columns a of R1 and b of R2
Concatenations(R1, R2, a, b) ==
    Only({ [k \in 1..Len(matching) |-> matching[k][1] \o matching[k][2]] :
           matching \in {SelectSeq([k \in 1..(Len(R1) * Len(R2)) |->
                                       <<R1[((k - 1) \div Len(R2)) + 1],
                                         R2[((k - 1) % Len(R2)) + 1]>>],
                                   LAMBDA p : p[1][a] = p[2][b])} })

\* the last call is a get_joined_table of two existing tables whose one join
\* pair names one column of each
JoinOfTwo ==
    /\ last.call.op = "get_joined_table"
    /\ Len(last.call.name) = 2
    /\ \A i \in 1..2 : last.call.name[i] \in DOMAIN tables /\ Scan(last.call.name[i]).ok
    /\ {parse_table_attribute(last.call.values[1][1]).v[1],
        parse_table_attribute(last.call.values[1][2]).v[1]}
          = {last.call.name[1], last.call.name[2]}

\* what the join of tables T1 and T2 over pair is to return as records when
\* the records taking part are those satisfying c1 and c2
JoinedAsStated(T1, T2, pair, c1, c2) ==
    Concatenations(Filtered(T1, c1), Filtered(T2, c2),
                   AttrIndex(tables[T1].schema, SideOf(pair, T1)[2]),
                   AttrIndex(tables[T2].schema, SideOf(pair, T2)[2]))

\* C13: get_joined_table(tables, join_attrs, conditions, None) returns the
\* concatenations of one record per table that satisfy the join equality and
\* the column names 'table.attr'; rows and columns start with the first table
\* of `tables`, followed by the joined table (stated for two tables, no
\* per-table condition).
C13_JoinInTableOrder ==
    (JoinOfTwo /\ \A i \in 1..2 : last.call.assignments[i].none) =>
        \E T1 \in {last.call.name[1]}, T2 \in {last.call.name[2]} :
            /\ last.ok
            /\ last.rows[2] = qualified(T1, attributes_of(World, T1))
                                 \o qualified(T2, attributes_of(World, T2))
            /\ SameRows(last.rows[1],
                        JoinedAsStated(T1, T2, last.call.values[1], NoCondition, NoCondition))

\* C14: in get_joined_table the records of tables[i] that take part in the
\* join are exactly those satisfying per_table_conditions[i], for every i
\* (stated for two tables whose join pair names the first table first).
C14_JoinFiltersEachTable ==
    (JoinOfTwo /\ parse_table_attribute(last.call.values[1][1]).v[1] = last.call.name[1]) =>
        \E T1 \in {last.call.name[1]}, T2 \in {last.call.name[2]} :
            /\ last.ok
            /\ SameRows(last.rows[1],
                        JoinedAsStated(T1, T2, last.call.values[1],
                                       last.call.assignments[1], last.call.assignments[2]))

\* the join pairs from i on are all accepted: each has exactly one of its two
\* tables in the processed set, which then takes the other
RECURSIVE OrderAccepted(_, _, _)
OrderAccepted(pairs, processed, i) ==
    IF i > Len(pairs) THEN TRUE
    ELSE \E A \in {parse_table_attribute(pairs[i][1]).v[1]},
            B \in {parse_table_attribute(pairs[i][2]).v[1]} :
             /\ (A \in processed) # (B \in processed)
             /\ OrderAccepted(pairs, processed \cup {A, B}, i + 1)

\* C15: a get_joined_table in which some pair has neither or both of its
\* tables in the processed set fails with the bad-join-order error and
\* returns no rows.
C15_BadJoinOrderRefused ==
    (/\ last.call.op = "get_joined_table"
     /\ \A i \in 1..Len(last.call.name) :
           last.call.name[i] \in DOMAIN tables /\ last.call.assignments[i].none
     /\ ~OrderAccepted(last.call.values, {last.call.name[1]}, 1)) =>
        ~last.ok /\ last.err = "Bad Join Order" /\ last.rows = <<>>

(***************************************************************************)
(* The hash index claims.  Spec calls set_index(t, name, 'hash'); a lookup *)
(* is get_index applied to the world the call leaves.                      *)
(***************************************************************************)
\* the values looked up in the name column, as a scan returns them
LookupValues == {StrV(<<QUOTE>> \o s_A \o <<QUOTE>>), StrV(<<QUOTE>> \o s_B \o <<QUOTE>>)}

\* the records of T in W whose column equals value, in insertion order: the
\* scan filtered by equality
EqualRows(W, T, column, value) ==
    Only({ SelectRows(rows,
                      {i \in 1..Len(rows) :
                          PyEq(rows[i][AttrIndex(W.tables[T].schema, column)], value)},
                      1) :
           rows \in {read_table(W, T).rows} })

\* get_index(T, column, value, 'varchar') in W returns exactly the list rows
LookupGives(W, T, column, value, rows) ==
    \E got \in {get_index(W, T, column, value, "varchar")} :
        got.ok /\ ~got.none /\ got.rows = rows

\* C16: set_index(T, col, 'hash') on a table of the tables map succeeds, and
\* immediately after it get_index(T, col, v, dtype) returns, for every value
\* v, exactly the records of T whose col value equals v, in insertion order.
C16_LookupAfterSetIndex ==
    [][(last'.call.op = "set_index" /\ last'.call.name \in DOMAIN tables) =>
          \E T \in {last'.call.name}, col \in {last'.call.values[1]} :
              /\ last'.ok
              /\ index_file_path(T, col) \in DOMAIN indexFiles'
              /\ \A v \in LookupValues :
                    LookupGives(World', T, col, v, EqualRows(World', T, col, v))]_vars

TEST_BASE_PATH == "test_storage"

\* C19: the hash index files of every table of a manager opened on base_path
\* are inside base_path: the paths that set_index, get_index, update_index
\* and delete_index use for its columns have base_path as their directory.
C19_IndexFilesUnderBasePath ==
    \A T \in DOMAIN tables :
        \A i \in 1..Len(tables[T].schema) :
            index_file_path(T, tables[T].schema[i].name)[1] = TEST_BASE_PATH

(***************************************************************************)
(* The key derivation on its own: KeySpec applies the expression of        *)
(* set_index (to a stored value) and of get_index (to the value looked up) *)
(* to ints on both sides of 0 and of 255.                                  *)
(***************************************************************************)
KeyReach == 20
KeyInts ==
    ((0 - KeyReach)..KeyReach) \cup ((255 - KeyReach)..(255 + KeyReach))
        \cup {65536, 2147483647, 0 - 2147483647}

\* n.to_bytes(4, 'big', signed=True), for n of 32 bits
BE32(n) ==
    Only({ << (IF n < 0 THEN 128 ELSE 0) + (m \div 16777216),
              (m \div 65536) % 256, (m \div 256) % 256, m % 256 >> :
           m \in {IF n < 0 THEN n + 2147483647 + 1 ELSE n} })

\* the key expression of set_index (StorageManager.py line 389), applied to
\* the value n of a stored record; the bytes hashed are kept in rows
SetIndexKey ==
    \E n \in KeyInts :
        \E b \in {key_bytes(IntV(n), "int")}, key \in {index_key(IntV(n), "int")} :
            Step(Call("set_index", s_t, <<s_id, IntV(n)>>, NoCondition, <<>>),
                 Out(key.ok, key.err, World, key.v, <<b.v>>), hist)

\* the key expression of get_index (line 439), applied to the value looked up
GetIndexKey ==
    \E n \in KeyInts :
        \E b \in {key_bytes(IntV(n), "int")}, key \in {index_key(IntV(n), "int")} :
            Step(Call("get_index", s_t, <<s_id, IntV(n)>>, NoCondition, <<>>),
                 Out(key.ok, key.err, World, key.v, <<b.v>>), hist)

KeyNext == SetIndexKey \/ GetIndexKey

KeySpec == Init /\ [][KeyNext]_vars

\* C20: for every int value of 32 bits the key derivation of set_index
\* succeeds and hashes the 4-byte big-endian two's-complement encoding of the
\* value, and get_index hashes the same bytes for the same value.
C20_IntKeyFromFourBytes ==
    (last.call.op \in {"set_index", "get_index"}) =>
        /\ last.ok
        /\ last.rows = <<BE32(last.call.values[2].i)>>

\* C21: a delete_table_record(T, c) that follows a completed
\* delete_table_record(T, c) with the same condition completes, removes
\* nothing and leaves the rows that the first one left.
C21_DeleteIsIdempotent ==
    [][(/\ last.call.op = "delete_table_record"
        /\ last.ok
        /\ last'.call.op = "delete_table_record"
        /\ last'.call.name = last.call.name
        /\ last'.call.condition = last.call.condition) =>
          \E T \in {last.call.name} :
              /\ last'.ok
              /\ last'.n = 0
              /\ ScanAfter(T) = Scan(T)]_vars


\* the records that the block headers of the first n blocks of file count,
\* the table header, which block 0 counts as a record, left out
RECURSIVE LiveCount(_, _)
LiveCount(file, n) ==
    IF n = 0 THEN 0 - 1
    ELSE LiveCount(file, n - 1) + (IF n <= Len(file) THEN file[n].record_count ELSE 0)

\* block 0 of T's file carries the manager's counters and the header magic,
\* and the first block_count blocks of the file hold record_count records
\* within their data areas
HeaderTrue(W, T) ==
    \E block \in {read_block(W.files[T], 0).v} :
        /\ DataSlice(block, 0, 4) = s_HEAD
        /\ U32(DataSlice(block, 8, 12)) = W.tables[T].record_count
        /\ FromLE(DataSlice(block, 12, 14)) = W.tables[T].block_count
        /\ W.tables[T].block_count >= 1
        /\ W.tables[T].block_count <= Len(W.files[T])
        /\ LiveCount(W.files[T], W.tables[T].block_count) = W.tables[T].record_count
        /\ \A b \in 1..Len(W.files[T]) :
              /\ W.files[T][b].free_space_offset <= DATA_SIZE
              /\ Len(W.files[T][b].data) <= W.files[T][b].free_space_offset

WideSize == 5000
HalfLen == 2030
OverLen == 4100
MaxSpillRecords == 3
MaxSpillBlocks == 3

wide_schema == <<Attribute(s_id, "int", 4), Attribute(s_name, "varchar", WideSize)>>

\* the str of n letters A
Letters(n) == [i \in 1..n |-> 65]

small_record == <<IntV(1), StrV(s_A)>>
half_record == <<IntV(2), StrV(Letters(HalfLen))>>
over_record == <<IntV(3), StrV(Letters(OverLen))>>

SpillBatches ==
    { <<small_record>>, <<half_record>>, <<half_record, half_record>>, <<over_record>>,
      <<small_record, over_record>> }

SpillCreate ==
    /\ s_t \notin DOMAIN tables
    /\ \E out \in {create_table(World, s_t, wide_schema)} :
          Step(Call("create_table", s_t, <<>>, NoCondition, <<>>), out, hist)

\* inserts run while no delete has run (hist.clean)
SpillInsert ==
    \E values \in SpillBatches :
        /\ s_t \in DOMAIN tables
        /\ hist.clean
        /\ tables[s_t].record_count + Len(values) <= MaxSpillRecords
        /\ tables[s_t].block_count < MaxSpillBlocks
        /\ \E out \in {insert_into_table(World, s_t, values)} :
              Step(Call("insert_into_table", s_t, values, NoCondition, <<>>), out, hist)

\* one delete, after the inserts
SpillDelete ==
    \E condition \in {Condition(s_id, "=", s_1), Condition(s_id, "=", s_2)} :
        /\ s_t \in DOMAIN tables
        /\ hist.clean
        /\ \E out \in {delete_table_record(World, s_t, condition)} :
              Step(Call("delete_table_record", s_t, <<>>, condition, <<>>), out,
                   [hist EXCEPT !.clean = FALSE])

SpillNext ==
    \/ SpillCreate
    \/ SpillInsert
    \/ SpillDelete

SpillSpec == Init /\ [][SpillNext]_vars

\* get_stats on the table of SpillSpec, between its inserts
StatNext ==
    \/ SpillCreate
    \/ SpillInsert
    \/ GetStats

StatSpec == Init /\ [][StatNext]_vars


\* the cached block under key k = <<table, block number>> is that block of the
\* table's file
CachedIsOnDisk(W, k) ==
    /\ k[1] \in DOMAIN W.files
    /\ k[2] < Len(W.files[k[1]])
    /\ \E cached \in {W.buffer[k]}, disk \in {W.files[k[1]][k[2] + 1]} :
          /\ cached.record_count = disk.record_count
          /\ cached.free_space_offset = disk.free_space_offset
          /\ cached.data = disk.data

\* C23: after every completed create, insert, scan, delete or update, every
\* block held in the page cache is identical to that block of the table file.
C23_CacheCoherent ==
    (/\ last.ok
     /\ last.call.op \in {"StorageManager", "create_table", "insert_into_table",
                          "get_table_data", "list_tables", "delete_table_record",
                          "update_table"}) =>
        \A k \in DOMAIN buffer : CachedIsOnDisk(World, k)


\* C24: an insert_into_table of records that all serialize under the table's
\* schema succeeds: the page-full error of add_record does not reach the
\* caller.
C24_PageFullStaysInternal ==
    (/\ last.call.op = "insert_into_table"
     /\ last.call.name \in DOMAIN tables
     /\ \A i \in 1..Len(last.call.values) :
           serialize(last.call.values[i], tables[last.call.name].schema).ok) =>
        last.ok


(***************************************************************************)
(* The record serializer on its own: RoundSpec serializes tuples that      *)
(* match round_schema and deserializes the bytes it got.  After            *)
(* SerializeRecord, last.call.values holds the tuple and last.rows the     *)
(* bytes; after DeserializeRecord, last.rows holds the tuple read back.    *)
(***************************************************************************)
RoundSize == 3
s_c == <<99>>
round_schema ==
    <<Attribute(s_id, "int", 4), Attribute(s_c, "char", 1),
      Attribute(s_name, "varchar", RoundSize)>>

\* ints of 32 bits, the ends of the range included
RoundInts == {0 - 2147483647 - 1, 0 - 52, 0 - 1, 0, 1, 204, 2147483647}
\* strings of one character: "A", "\x00" and e with an acute accent
RoundChars == {s_A, <<0>>, <<195, 169>>}
\* strings of encoded length 0..RoundSize: "", "A", "AB", "ABC", "'", "'A'"
\* and "a" followed by the combining grave accent U+0300
RoundVarChars ==
    {<<>>, s_A, <<65, 66>>, <<65, 66, 67>>, <<QUOTE>>, <<QUOTE, 65, QUOTE>>, <<97, 204, 128>>}

RoundRecords ==
    {<<IntV(n), StrV(c), StrV(v)>> : n \in RoundInts, c \in RoundChars, v \in RoundVarChars}

SerializeRecord ==
    \E record \in RoundRecords :
        \E out \in {serialize(record, round_schema)} :
            Step(Call("serialize", <<>>, <<record>>, NoCondition, <<>>),
                 Out(out.ok, out.err, World, 0, <<out.v>>), hist)

DeserializeRecord ==
    /\ last.call.op = "serialize"
    /\ last.ok
    /\ \E out \in {deserialize(last.rows[1], round_schema)} :
          Step(Call("deserialize", <<>>, last.call.values, NoCondition, <<>>),
               Out(out.ok, out.err, World, 0, <<out.v>>), hist)

RoundNext == SerializeRecord \/ DeserializeRecord

RoundSpec == Init /\ [][RoundNext]_vars

\* a tuple as deserialize gives it: the values of the varchar columns of schema
\* wrapped in single quotes
WrappedFor(record, schema) ==
    [i \in 1..Len(record) |->
        IF schema[i].dtype = "varchar"
        THEN StrV(<<QUOTE>> \o record[i].s \o <<QUOTE>>)
        ELSE record[i]]

\* C25: every tuple that matches its schema (an int of 32 bits, a char of
\* length 1, a varchar of encoded length 0 up to the declared size) is
\* serialized, and deserializing the bytes gives the tuple back, its varchar
\* value wrapped in single quotes.
C25_RecordRoundTrip ==
    /\ last.call.op = "serialize" => last.ok
    /\ last.call.op = "deserialize" =>
          last.ok /\ last.rows = <<WrappedFor(last.call.values[1], round_schema)>>


\* C26: 0xCC is a safe end-of-record marker: in the bytes of every
\* serialized record the first 0xCC is the last byte, so the scanner's loop
\* (collect bytes up to the first 0xCC) collects exactly the record, whatever
\* its field values are.
C26_SentinelEndsRecord ==
    (last.call.op = "serialize" /\ last.ok) =>
        \E block \in {[data |-> last.rows[1]]} :
            DataSlice(block, 0, FirstSentinel(block, 0) + 1) = last.rows[1]


\* the schema recorded in the table header of block 0 of a file
HeaderSchema(file) ==
    Only({ SchemaDeserialize(
               DataSlice(block, 18, 18 + FromLE(DataSlice(block, 14, 16))), 0) :
           block \in {read_block(file, 0).v} })

\* C27: information_schema is present at all times: the tables map contains
\* it, its file exists, and the schema in the map and in the file's header
\* is [(table_name, varchar, 50)].
C27_CatalogAlwaysPresent ==
    /\ s_information_schema \in DOMAIN tables
    /\ s_information_schema \in DOMAIN files
    /\ tables[s_information_schema].schema = information_schema_schema
    /\ DataSlice(read_block(files[s_information_schema], 0).v, 0, 4) = s_HEAD
    /\ HeaderSchema(files[s_information_schema]) = Ok(information_schema_schema)

\* delete_table('information_schema') was called and the catalog is there
C27_Witness ==
    /\ last.call.op = "delete_table"
    /\ last.call.name = s_information_schema
    /\ s_information_schema \in DOMAIN tables
    /\ s_information_schema \in DOMAIN files
    /\ hist.created # {}

RECURSIVE UsedBytes(_, _)
UsedBytes(file, n) ==
    IF n = 0 THEN 0
    ELSE UsedBytes(file, n - 1) + (IF n <= Len(file) THEN file[n].free_space_offset ELSE 0)

\* the total size of the serialized records of T: the bytes in use in its
\* block_count blocks, the table header of block 0 left out
record_bytes_past_header(W, T) ==
    UsedBytes(W.files[T], W.tables[T].block_count)
        - U32(DataSlice(read_block(W.files[T], 0).v, 4, 8))

NoBlockOverfull(W, T) ==
    \A b \in 1..Len(W.files[T]) :
        /\ W.files[T][b].free_space_offset <= DATA_SIZE
        /\ Len(W.files[T][b].data) <= DATA_SIZE

\* C29 as stated: for every table T, block_count(T) is
\* 1 + floor(record_bytes_past_header / 4084), and no block uses more than
\* 4084 bytes of its data area.
C29_BlockCountIsPacked ==
    \A T \in DOMAIN tables :
        T \in DOMAIN files =>
            /\ tables[T].block_count = 1 + (record_bytes_past_header(World, T) \div DATA_SIZE)
            /\ NoBlockOverfull(World, T)

\* C29 amended: records are kept whole and block 0 also holds the table
\* header, so for every table T block_count(T) is at least
\* 1 + floor(record_bytes_past_header / 4084), and no block uses more than
\* 4084 bytes of its data area.
C29_BlockCountCoversBytes ==
    \A T \in DOMAIN tables :
        T \in DOMAIN files =>
            /\ record_bytes_past_header(World, T) >= 0
            /\ tables[T].block_count >= 1 + (record_bytes_past_header(World, T) \div DATA_SIZE)
            /\ NoBlockOverfull(World, T)

\* an insert spilled to a second block although the records of the table
\* take less than the data area of one
C29_Witness ==
    /\ last.call.op = "insert_into_table"
    /\ last.ok
    /\ s_t \in DOMAIN tables
    /\ tables[s_t].block_count = 2
    /\ tables[s_t].record_count = 2
    /\ record_bytes_past_header(World, s_t) < DATA_SIZE
    /\ record_bytes_past_header(World, s_t) > DATA_SIZE \div 2


(***************************************************************************)
(* ExpressionParser (lib/Expression.py).  An expression and a token are    *)
(* byte strings; a context maps identifiers to ints.  The numbers of the   *)
(* evaluation stack are floats in the source; the model keeps them as      *)
(* fractions n / d in lowest terms, so the rounding of a float is left     *)
(* out.  The model's expressions hold no string literals, and their        *)
(* exponents are whole numbers.                                            *)
(***************************************************************************)
RECURSIVE Gcd(_, _)
Gcd(a, b) == IF b = 0 THEN a ELSE Gcd(b, a % b)

Abs(x) == IF x < 0 THEN 0 - x ELSE x

\* the number n / d, d # 0
Num(n, d) ==
    Only({ [n |-> (IF d < 0 THEN 0 - n ELSE n) \div g, d |-> Abs(d) \div g] :
           g \in {Gcd(Abs(n), Abs(d))} })

RECURSIVE IntPow(_, _)
IntPow(b, e) == IF e = 0 THEN 1 ELSE b * IntPow(b, e - 1)

\* a precedence table in which ^ ranks with * / %
precedence_without_power(token) ==
    IF token \in {<<43>>, <<45>>} THEN 1
    ELSE IF token \in {<<42>>, <<47>>, <<37>>, <<94>>} THEN 2
    ELSE 0

precedence(token) ==
    IF token \in {<<43>>, <<45>>} THEN 1
    ELSE IF token \in {<<42>>, <<47>>, <<37>>} THEN 2
    ELSE IF token = <<94>> THEN 3
    ELSE 0

IsIdentStart(x) == (x >= 97 /\ x <= 122) \/ (x >= 65 /\ x <= 90) \/ x = 95 \/ x = 46
IsIdentChar(x) == IsIdentStart(x) \/ IsDigit(x)
IsOperatorChar(x) == x \in {43, 45, 42, 47, 94, 37, 40, 41}

\* the last position of the run of digits that starts at i
DigitsEnd(s, i) ==
    CHOOSE j \in i..Len(s) :
        /\ \A k \in i..j : IsDigit(s[k])
        /\ j = Len(s) \/ ~IsDigit(s[j + 1])

\* the last position of the numeral \d+(?:\.\d+)? that starts at i
NumberEnd(s, i) ==
    Only({ IF j + 2 <= Len(s) /\ s[j + 1] = 46 /\ IsDigit(s[j + 2])
           THEN DigitsEnd(s, j + 2) ELSE j :
           j \in {DigitsEnd(s, i)} })

IdentEnd(s, i) ==
    CHOOSE j \in i..Len(s) :
        /\ \A k \in i..j : IsIdentChar(s[k])
        /\ j = Len(s) \/ ~IsIdentChar(s[j + 1])

\* tokenize: the matches of token_pattern from position i on, white space
\* and the characters that match no group left out
RECURSIVE tokenize_from(_, _)
tokenize_from(expression, i) ==
    IF i > Len(expression) THEN <<>>
    ELSE IF IsDigit(expression[i])
    THEN <<SubSeq(expression, i, NumberEnd(expression, i))>>
             \o tokenize_from(expression, NumberEnd(expression, i) + 1)
    ELSE IF IsIdentStart(expression[i])
    THEN <<SubSeq(expression, i, IdentEnd(expression, i))>>
             \o tokenize_from(expression, IdentEnd(expression, i) + 1)
    ELSE IF IsOperatorChar(expression[i])
    THEN <<<<expression[i]>>>> \o tokenize_from(expression, i + 1)
    ELSE tokenize_from(expression, i + 1)

tokenize(expression) == tokenize_from(expression, 1)

\* is_number: float(token) does not raise.  For the tokens of the model: a
\* decimal numeral, with the sign that str() gives a negative context value
is_number(token) ==
    \E body \in {IF Len(token) > 0 /\ token[1] = 45 THEN Tail(token) ELSE token} :
        /\ Len(body) > 0
        /\ IsDigit(body[1])
        /\ NumberEnd(body, 1) = Len(body)

\* float(token) of a token that is a number
number_value(token) ==
    IF token[1] = 45
    THEN Only({ Num(0 - DigitsValue(body, Len(body)), 1) : body \in {Tail(token)} })
    ELSE IF DigitsEnd(token, 1) = Len(token) THEN Num(DigitsValue(token, Len(token)), 1)
    ELSE Only({ Num(DigitsValue(SubSeq(token, 1, j) \o SubSeq(token, j + 2, Len(token)),
                                Len(token) - 1),
                    IntPow(10, Len(token) - j - 1)) :
                j \in {DigitsEnd(token, 1)} })

is_attribute(token) ==
    Len(token) > 0 /\ IsIdentStart(token[1]) /\ \A k \in 1..Len(token) : IsIdentChar(token[k])

\* the while loop of lines 83-87: the operators that leave the stack before
\* token is pushed; the top of the stack is its last element
RECURSIVE pop_operators(_, _, _)
pop_operators(output_queue, operator_stack, token) ==
    IF /\ operator_stack # <<>>
       /\ operator_stack[Len(operator_stack)] # <<40>>
       /\ \/ precedence(operator_stack[Len(operator_stack)]) > precedence(token)
          \/ precedence(operator_stack[Len(operator_stack)]) = precedence(token)
    THEN pop_operators(Append(output_queue, operator_stack[Len(operator_stack)]),
                       SubSeq(operator_stack, 1, Len(operator_stack) - 1), token)
    ELSE [output_queue |-> output_queue, operator_stack |-> operator_stack]

\* the while loop of lines 94-95, for a closing parenthesis
RECURSIVE pop_to_parenthesis(_, _)
pop_to_parenthesis(output_queue, operator_stack) ==
    IF operator_stack # <<>> /\ operator_stack[Len(operator_stack)] # <<40>>
    THEN pop_to_parenthesis(Append(output_queue, operator_stack[Len(operator_stack)]),
                            SubSeq(operator_stack, 1, Len(operator_stack) - 1))
    ELSE [output_queue |-> output_queue, operator_stack |-> operator_stack]

\* the loop of lines 102-105
RECURSIVE drain_operators(_, _)
drain_operators(output_queue, operator_stack) ==
    IF operator_stack = <<>> THEN Ok(output_queue)
    ELSE IF operator_stack[Len(operator_stack)] = <<40>> THEN Raise("ValueError", <<>>)
    ELSE drain_operators(Append(output_queue, operator_stack[Len(operator_stack)]),
                         SubSeq(operator_stack, 1, Len(operator_stack) - 1))

\* the for loop of parse_expression from token i on
RECURSIVE parse_tokens(_, _, _, _, _)
parse_tokens(tokens, i, output_queue, operator_stack, context) ==
    IF i > Len(tokens) THEN drain_operators(output_queue, operator_stack)
    ELSE IF is_number(tokens[i])
    THEN parse_tokens(tokens, i + 1, Append(output_queue, tokens[i]), operator_stack, context)
    ELSE IF is_attribute(tokens[i])
    THEN parse_tokens(tokens, i + 1,
                      Append(output_queue,
                             IF tokens[i] \in DOMAIN context
                             THEN Decimal(context[tokens[i]]) ELSE tokens[i]),
                      operator_stack, context)
    ELSE IF precedence(tokens[i]) > 0
    THEN Only({ parse_tokens(tokens, i + 1, p.output_queue,
                             Append(p.operator_stack, tokens[i]), context) :
                p \in {pop_operators(output_queue, operator_stack, tokens[i])} })
    ELSE IF tokens[i] = <<40>>
    THEN parse_tokens(tokens, i + 1, output_queue, Append(operator_stack, tokens[i]), context)
    ELSE IF tokens[i] = <<41>>
    THEN Only({ IF p.operator_stack = <<>> THEN Raise("ValueError", <<>>)
                ELSE parse_tokens(tokens, i + 1, p.output_queue,
                                  SubSeq(p.operator_stack, 1, Len(p.operator_stack) - 1),
                                  context) :
                p \in {pop_to_parenthesis(output_queue, operator_stack)} })
    ELSE parse_tokens(tokens, i + 1, output_queue, operator_stack, context)

\* parse_expression: the postfix tokens, or the ValueError of mismatched
\* parentheses
parse_expression(expression, context) ==
    parse_tokens(tokenize(expression), 1, <<>>, <<>>, context)

\* lines 132-148: the value an operator gives for the numbers left and right
apply_operator(token, left, right) ==
    IF token = <<43>> THEN Ok(Num(left.n * right.d + right.n * left.d, left.d * right.d))
    ELSE IF token = <<45>> THEN Ok(Num(left.n * right.d - right.n * left.d, left.d * right.d))
    ELSE IF token = <<42>> THEN Ok(Num(left.n * right.n, left.d * right.d))
    ELSE IF token = <<47>>
    THEN IF right.n = 0 THEN Raise("ValueError", Num(0, 1))
         ELSE Ok(Num(left.n * right.d, left.d * right.n))
    ELSE IF token = <<37>>
    THEN IF right.n = 0 THEN Raise("ZeroDivisionError", Num(0, 1))
         ELSE Only({ Ok(Num(left.n * right.d - (q.n \div q.d) * right.n * left.d,
                            left.d * right.d)) :
                     q \in {Num(left.n * right.d, left.d * right.n)} })
    ELSE IF right.n >= 0
    THEN Ok(Num(IntPow(left.n, right.n), IntPow(left.d, right.n)))
    ELSE IF left.n = 0 THEN Raise("ZeroDivisionError", Num(0, 1))
    ELSE Ok(Num(IntPow(left.d, 0 - right.n), IntPow(left.n, 0 - right.n)))

\* the for loop of evaluate_postfix from token i on; the top of the stack is
\* its last element.  A token that is neither a number nor an operator (an
\* identifier the context does not hold) is passed over
RECURSIVE evaluate_tokens(_, _, _)
evaluate_tokens(postfix_tokens, i, stack) ==
    IF i > Len(postfix_tokens)
    THEN IF Len(stack) # 1 THEN Raise("ValueError", Num(0, 1)) ELSE Ok(stack[1])
    ELSE IF is_number(postfix_tokens[i])
    THEN evaluate_tokens(postfix_tokens, i + 1, Append(stack, number_value(postfix_tokens[i])))
    ELSE IF precedence(postfix_tokens[i]) > 0
    THEN IF Len(stack) < 2 THEN Raise("ValueError", Num(0, 1))
         ELSE Only({ IF ~r.ok THEN r
                     ELSE evaluate_tokens(postfix_tokens, i + 1,
                                          Append(SubSeq(stack, 1, Len(stack) - 2), r.v)) :
                     r \in {apply_operator(postfix_tokens[i], stack[Len(stack) - 1],
                                           stack[Len(stack)])} })
    ELSE evaluate_tokens(postfix_tokens, i + 1, stack)

evaluate_postfix(postfix_tokens) == evaluate_tokens(postfix_tokens, 1, <<>>)

\* ExpressionParser.evaluate
evaluate_expression(expression, context) ==
    Only({ IF ~postfix_tokens.ok THEN Raise(postfix_tokens.err, Num(0, 1))
           ELSE evaluate_postfix(postfix_tokens.v) :
           postfix_tokens \in {parse_expression(expression, context)} })

(***************************************************************************)
(* The evaluator on its own: ExprSpec evaluates the expressions            *)
(* x - y - z, x + y * z, x ^ y ^ z, x ^ (y - z) - w and x * y ^ z, their    *)
(* operands either the identifiers a, b, c, d resolved by the context or   *)
(* unsigned literals, and the expression of test_update_records.  After a  *)
(* step, last.call.name is the expression, last.call.values the operands,  *)
(* last.n the form and last.rows the value.  An evaluation reads and       *)
(* leaves no state, so each is made once, from the initial state.          *)
(***************************************************************************)
ExprReach == 2
ExprInts == (0 - ExprReach)..ExprReach
ExprAges == {19, 20, 21}

s_a == <<97>>
s_b == <<98>>
s_d == <<100>>
s_minus == <<32, 45, 32>>
s_plus == <<32, 43, 32>>
s_times == <<32, 42, 32>>
s_power == <<32, 94, 32>>
s_update_expression ==
    s_age \o s_power \o <<40, 53>> \o s_minus \o <<51, 41>> \o s_minus \o <<49, 48, 48>>

\* the text of the expression of a form over the operand texts x, y, z, w
expression_text(form, x, y, z, w) ==
    CASE form = 1 -> x \o s_minus \o y \o s_minus \o z
      [] form = 2 -> x \o s_plus \o y \o s_times \o z
      [] form = 3 -> x \o s_power \o y \o s_power \o z
      [] form = 5 -> x \o s_times \o y \o s_power \o z
      [] OTHER -> x \o s_power \o <<40>> \o y \o s_minus \o z \o <<41>> \o s_minus \o w

\* evaluate on a form whose operands are identifiers
EvaluateAttributes ==
    \E form \in 1..5, a \in ExprInts, b \in ExprInts, c \in ExprInts, d \in ExprInts :
        /\ last.call.op # "evaluate"
        /\ form # 4 => d = 0
        /\ \E out \in {evaluate_expression(expression_text(form, s_a, s_b, s_c, s_d),
                                (s_a :> a) @@ (s_b :> b) @@ (s_c :> c) @@ (s_d :> d))} :
              Step(Call("evaluate", expression_text(form, s_a, s_b, s_c, s_d),
                        <<a, b, c, d>>, NoCondition, <<>>),
                   Out(out.ok, out.err, World, form, <<out.v>>), hist)

\* evaluate on a form whose operands are literals
EvaluateLiterals ==
    \E form \in 1..5, a \in 0..ExprReach, b \in 0..ExprReach, c \in 0..ExprReach,
       d \in 0..ExprReach :
        /\ last.call.op # "evaluate"
        /\ form # 4 => d = 0
        /\ \E text \in {expression_text(form, Decimal(a), Decimal(b), Decimal(c), Decimal(d))} :
              \E out \in {evaluate_expression(text, << >>)} :
                  Step(Call("evaluate", text, <<a, b, c, d>>, NoCondition, <<>>),
                       Out(out.ok, out.err, World, form, <<out.v>>), hist)

\* the evaluation test_update_records expects of update_table
EvaluateUpdate ==
    \E age \in ExprAges :
        /\ last.call.op # "evaluate"
        /\ \E out \in {evaluate_expression(s_update_expression, (s_age :> age))} :
              Step(Call("evaluate", s_update_expression, <<age, 5, 3, 100>>,
                        NoCondition, <<>>),
                   Out(out.ok, out.err, World, 4, <<out.v>>), hist)

ExprNext == EvaluateAttributes \/ EvaluateLiterals \/ EvaluateUpdate

ExprSpec == Init /\ [][ExprNext]_vars

\* an operator applied to two results: the first error stands
Applied(token, left, right) ==
    IF ~left.ok THEN left ELSE IF ~right.ok THEN right ELSE apply_operator(token, left.v, right.v)

Operand(k) == Ok(Num(last.call.values[k], 1))

\* the value of the form of the last call, its operators applied in the
\* order the claim gives
Expected ==
    CASE last.n = 1 -> Applied(<<45>>, Applied(<<45>>, Operand(1), Operand(2)), Operand(3))
      [] last.n = 2 -> Applied(<<43>>, Operand(1), Applied(<<42>>, Operand(2), Operand(3)))
      [] last.n = 3 -> Applied(<<94>>, Applied(<<94>>, Operand(1), Operand(2)), Operand(3))
      [] last.n = 5 -> Applied(<<42>>, Operand(1), Applied(<<94>>, Operand(2), Operand(3)))
      [] OTHER -> Applied(<<45>>,
                          Applied(<<94>>, Operand(1), Applied(<<45>>, Operand(2), Operand(3))),
                          Operand(4))

\* C30: the evaluator gives ^ precedence over * / %, these over + -, applies
\* operators of equal precedence, ^ included, from left to right, and lets
\* parentheses override: a - b - c is (a - b) - c, a + b * c is a + (b * c),
\* a ^ b ^ c is (a ^ b) ^ c, a ^ (b - c) - d is (a ^ (b - c)) - d and
\* a * b ^ c is a * (b ^ c), and age ^ (5 - 3) - 100 with age = 21 is 341.
C30_PrecedenceLeftToRight ==
    last.call.op = "evaluate" =>
        /\ last.ok = Expected.ok
        /\ last.err = Expected.err
        /\ last.rows = <<Expected.v>>
        /\ (last.call.name = s_update_expression /\ last.call.values[1] = 21) =>
              last.ok /\ last.rows = <<Num(341, 1)>>

\* 2 ^ 1 ^ 2 was evaluated, which is 4 from left to right and 2 from right to
\* left, and so were 2 + 2 * 2 and the expression of the test
C30_Witness ==
    /\ last.call.op = "evaluate"
    /\ last.ok
    /\ \/ last.n = 3 /\ last.call.values = <<2, 1, 2, 0>> /\ last.rows = <<Num(4, 1)>>
       \/ last.n = 2 /\ last.call.values = <<2, 2, 2, 0>> /\ last.rows = <<Num(6, 1)>>
       \/ last.call.name = s_update_expression /\ last.rows = <<Num(341, 1)>>


(***************************************************************************)
(* The block on its own: BlockSpec takes a block, from Block() or from     *)
(* read_block past the end of a file, and calls add_record on it with      *)
(* byte strings of the lengths of BlockLengths.  After a step              *)
(* last.rows[1] is the block and last.call.values the bytes added.         *)
(***************************************************************************)
MaxAdds == 4
LongLen == 2000
RestLen == 2084
BlockLengths == {0, 1, LongLen, RestLen, DATA_SIZE, DATA_SIZE + 1}

BlockNew ==
    /\ last.call.op = "StorageManager"
    /\ Step(Call("Block", <<>>, <<>>, NoCondition, <<>>),
            Out(TRUE, "", World, 0, <<NewBlock>>), hist)

BlockRead ==
    /\ last.call.op = "StorageManager"
    /\ \E out \in {read_block(<<>>, 0)} :
          Step(Call("read_block", <<>>, <<>>, NoCondition, <<>>),
               Out(out.ok, out.err, World, 0, <<out.v>>), hist)

AddRecord ==
    /\ last.call.op \in {"Block", "read_block", "add_record"}
    /\ last.n < MaxAdds
    /\ \E n \in BlockLengths :
          \E out \in {add_record(last.rows[1], Letters(n))} :
              Step(Call("add_record", <<>>, Letters(n), NoCondition, <<>>),
                   Out(out.ok, out.err, World, last.n + 1, <<out.v>>), hist)

BlockNext == BlockNew \/ BlockRead \/ AddRecord

BlockSpec == Init /\ [][BlockNext]_vars

\* C31: on every add_record(b) the free_space_offset stays within 4084; the
\* call fails exactly when len(b) is larger than capacity(), and then leaves
\* header and data as they were; when it succeeds b lies at the old
\* free_space_offset, the bytes before it are as before, free_space_offset
\* has grown by len(b) and record_count by 1.
C31_AddRecordKeepsBlock ==
    [][last'.call.op = "add_record" =>
          \E old \in {last.rows[1]}, new \in {last'.rows[1]}, b \in {last'.call.values} :
              /\ new.free_space_offset <= DATA_SIZE
              /\ last'.ok <=> Len(b) <= capacity(old)
              /\ ~last'.ok => new = old
              /\ last'.ok =>
                    /\ new.free_space_offset = old.free_space_offset + Len(b)
                    /\ new.record_count = old.record_count + 1
                    /\ DataSlice(new, old.free_space_offset, new.free_space_offset) = b
                    /\ DataSlice(new, 0, old.free_space_offset)
                           = DataSlice(old, 0, old.free_space_offset)]_vars

\* add_record was refused on a block that earlier calls filled to the last byte
C31_Witness ==
    /\ last.call.op = "add_record"
    /\ ~last.ok
    /\ last.rows[1].free_space_offset = DATA_SIZE
    /\ last.rows[1].record_count >= 2



(***************************************************************************)
(* Deletes on tables of more than one block.  CompactSpec fills the table  *)
(* t of SpillSpec with records that all fit a block: a few bytes, or about *)
(* half a block with id 1 or id 2, one insert_into_table per record, and   *)
(* then deletes by id.                                                     *)
(***************************************************************************)
half_one == <<IntV(1), StrV(Letters(HalfLen))>>

CompactBatches == { <<small_record>>, <<half_one>>, <<half_record>> }

CompactInsert ==
    \E values \in CompactBatches :
        /\ s_t \in DOMAIN tables
        /\ hist.clean
        /\ tables[s_t].record_count + Len(values) <= MaxSpillRecords
        /\ tables[s_t].block_count < MaxSpillBlocks
        /\ \E out \in {insert_into_table(World, s_t, values)} :
              Step(Call("insert_into_table", s_t, values, NoCondition, <<>>), out, hist)

CompactNext ==
    \/ SpillCreate
    \/ CompactInsert
    \/ SpillDelete

CompactSpec == Init /\ [][CompactNext]_vars

\* the records of T in the blocks of its file, the page cache set aside
DiskScan(W, T) == read_table([W EXCEPT !.buffer = << >>], T)

\* C32: a delete that matches a record of a table of two or more blocks
\* succeeds, leaves in the file exactly the records that did not match, in
\* their order, from every block, and leaves a block_count of at least 1.
C32_CompactKeepsSurvivors ==
    [][(/\ last'.call.op = "delete_table_record"
        /\ s_t \in DOMAIN tables
        /\ tables[s_t].block_count >= 2) =>
          \E before \in {DiskScan(World, s_t)}, after \in {DiskScan(World', s_t)} :
              \E hit \in {Matching(before.rows, last'.call.condition, tables[s_t].schema)} :
                  (before.ok /\ hit # {}) =>
                      /\ last'.ok
                      /\ after.ok
                      /\ after.rows = SelectRows(before.rows, (1..Len(before.rows)) \ hit, 1)
                      /\ tables'[s_t].block_count >= 1]_vars


\* C33: a create_table(n, s) that follows a delete_table(n) of a table that
\* was there succeeds and gives an empty table of schema s: get_table_data(n)
\* returns no record and the counters of the table are those of a new table.
C33_RecreateIsFresh ==
    [][(/\ last.call.op = "delete_table"
        /\ last.call.name # s_information_schema
        /\ last.ok \/ last.call.name \in DOMAIN tables
        /\ last'.call.op = "create_table"
        /\ last'.call.name = last.call.name) =>
          \E n \in {last.call.name} :
              /\ last'.ok
              /\ n \in DOMAIN tables'
              /\ tables'[n].schema = user_schema
              /\ tables'[n].record_count = 0
              /\ \E after \in {get_table_data(World', n)} : after.ok /\ after.rows = <<>>]_vars


\* the update of rows under the call's condition and assignments gives a
\* record that serialize refuses
ReappendFails(rows, call, schema) ==
    /\ ~call.condition.none
    /\ \E u \in {update_records(rows, call.condition, call.assignments, schema, 1)} :
          /\ u.ok
          /\ \E i \in 1..Len(u.v) : ~serialize(u.v[i], schema).ok

C35_FailedInsertConsistent ==
    (/\ last.call.op = "insert_into_table"
     /\ ~last.ok
     /\ s_t \in DOMAIN tables) =>
        \E block \in {read_block(files[s_t], 0).v}, records \in {Scan(s_t)} :
            /\ U32(DataSlice(block, 8, 12)) = tables[s_t].record_count
            /\ FromLE(DataSlice(block, 12, 14)) = tables[s_t].block_count
            /\ tables[s_t].block_count <= Len(files[s_t])
            /\ records.ok
            /\ Len(records.rows) = tables[s_t].record_count
            /\ insert_into_table(World, s_t, <<small_record>>).ok


\* every row of information_schema in its file names a table whose file exists
CatalogRowsHaveFiles(W) ==
    \E out \in {DiskScan(W, s_information_schema)} :
        /\ out.ok
        /\ \A i \in 1..Len(out.rows) :
              /\ out.rows[i][1].s # <<>>
              /\ catalog_name(out.rows[i][1].s) \in DOMAIN W.files

\* the directory when create_table(table_name, schema) stops after the
\* TableFileManager was constructed and before the catalog row is written
create_table_stopped(W, table_name, schema) == tfm_init(W, table_name, TRUE, schema).W

\* C36: in every state, and in the state between the two writes of a
\* create_table, every name in a row of information_schema has a table
\* file; and StorageManager start-up on the directory does not fail with
\* 'Schema must be provided when creating a new table.'.
C36_CatalogRowsHaveFiles ==
    /\ CatalogRowsHaveFiles(World)
    /\ \A table_name \in TableNames \ DOMAIN tables :
          CatalogRowsHaveFiles(create_table_stopped(World, table_name, user_schema))
    /\ StorageManager(files, indexFiles).err
          # "Schema must be provided when creating a new table."


(***************************************************************************)
(* Two StorageManager objects in one process.  In PairSpec files, tables   *)
(* and buffer are pairs indexed by manager: files[m] is the directory at   *)
(* the base path of manager m, tables[m] its tables map, buffer[m] its     *)
(* page cache.  hist.base_path is the class attribute                      *)
(* TableFileManager.base_path, as the number of the manager whose path it  *)
(* holds; hist.home[m][x] is the directory in the file_path of the         *)
(* TableFileManager tables[m][x], fixed when it was constructed;           *)
(* hist.actor is the manager that made the last call.  Manager 1 is        *)
(* constructed first, manager 2 second.                                    *)
(***************************************************************************)
MaxPairRecords == 2
Managers == {1, 2}
PairNames == {s_t, s_u, s_information_schema}

\* the directory of the file that manager m opens for table x: the one in the
\* file_path of its TableFileManager, or for a TableFileManager yet to be
\* constructed the class attribute
DirOfIn(T, H, m, x) == IF x \in DOMAIN T[m] THEN H.home[m][x] ELSE H.base_path
DirOf(m, x) == DirOfIn(tables, hist, m, x)

\* the world that the handlers of manager m act on, in the state of the
\* directories F, tables maps T, caches B, index files I and H as hist
ViewOf(F, T, B, I, H, m) ==
    [files |-> [x \in {y \in PairNames : y \in DOMAIN F[DirOfIn(T, H, m, y)]} |->
                   F[DirOfIn(T, H, m, x)][x]],
     tables |-> T[m], buffer |-> B[m], indexFiles |-> I]
PairView(m) == ViewOf(files, tables, buffer, indexFiles, hist, m)

\* the two directories after a handler of manager m left the files files1
PairDirs(m, files1) ==
    [d \in Managers |->
        [x \in {y \in PairNames : IF DirOf(m, y) = d THEN y \in DOMAIN files1
                                  ELSE y \in DOMAIN files[d]} |->
            IF DirOf(m, x) = d THEN files1[x] ELSE files[d][x]]]

PairStep(m, call, out) ==
    /\ files' = PairDirs(m, out.W.files)
    /\ tables' = [tables EXCEPT ![m] = out.W.tables]
    /\ buffer' = [buffer EXCEPT ![m] = out.W.buffer]
    /\ indexFiles' = out.W.indexFiles
    /\ last' = [call |-> call, ok |-> out.ok, err |-> out.err, n |-> out.n, rows |-> out.rows]
    /\ hist' = [hist EXCEPT !.actor = m,
                            !.home[m] = [x \in DOMAIN out.W.tables |-> DirOf(m, x)]]

\* StorageManager(path 1) and then StorageManager(path 2), each on an empty
\* directory: the class attribute is left at path 2
PairInit ==
    \E out \in {StorageManager(<< >>, << >>)} :
        /\ files = [m \in Managers |-> out.W.files]
        /\ tables = [m \in Managers |-> out.W.tables]
        /\ buffer = [m \in Managers |-> out.W.buffer]
        /\ indexFiles = out.W.indexFiles
        /\ last = [call |-> Call("StorageManager", <<>>, <<>>, NoCondition, <<>>),
                   ok |-> out.ok, err |-> out.err, n |-> 0, rows |-> <<>>]
        /\ hist = [base_path |-> 2, actor |-> 2,
                   home |-> [m \in Managers |-> [x \in DOMAIN out.W.tables |-> m]]]

PairCreate ==
    \E m \in Managers, table_name \in {s_t, s_u} :
        \E out \in {create_table(PairView(m), table_name, user_schema)} :
            PairStep(m, Call("create_table", table_name, <<>>, NoCondition, <<>>), out)

PairInsert ==
    \E m \in Managers, table_name \in {s_t, s_u} :
        \E values \in {<< <<IntV(1), StrV(s_A)>> >>} :
            /\ table_name \in DOMAIN tables[m] =>
                  /\ tables[m][table_name].record_count < MaxPairRecords
                  /\ ScanLen(PairView(m), table_name) < MaxPairRecords
            /\ \E out \in {insert_into_table(PairView(m), table_name, values)} :
                  PairStep(m, Call("insert_into_table", table_name, values, NoCondition, <<>>),
                           out)

PairDelete ==
    \E m \in Managers, table_name \in {s_t, s_u} :
        \E condition \in {Condition(s_id, "=", s_1)} :
            \E out \in {delete_table_record(PairView(m), table_name, condition)} :
                PairStep(m, Call("delete_table_record", table_name, <<>>, condition, <<>>), out)

PairDeleteTable ==
    \E m \in Managers, table_name \in {s_t, s_u} :
        \E out \in {delete_table(PairView(m), table_name)} :
            PairStep(m, Call("delete_table", table_name, <<>>, NoCondition, <<>>), out)

PairNext ==
    \/ PairCreate
    \/ PairInsert
    \/ PairDelete
    \/ PairDeleteTable

PairSpec == PairInit /\ [][PairNext]_vars

\* what manager m returns for get_table_data on each of its tables
PairResults(W) ==
    [x \in DOMAIN W.tables |-> Only({ <<out.ok, out.rows>> : out \in {get_table_data(W, x)} })]

\* C37: a create_table, insert_into_table, delete_table_record or
\* delete_table of one manager leaves the directory, the tables map and the
\* query results of the other manager unchanged, and every table file of
\* the calling manager is under its own base path.
C37_ManagersIsolated ==
    [][\A m \in Managers :
          (/\ hist'.actor = m
           /\ last'.call.op \in {"create_table", "insert_into_table", "delete_table_record",
                                 "delete_table"}) =>
              \E other \in {3 - m} :
                  /\ files'[other] = files[other]
                  /\ tables'[other] = tables[other]
                  /\ PairResults(ViewOf(files', tables', buffer', indexFiles', hist', other))
                        = PairResults(PairView(other))
                  /\ \A x \in DOMAIN tables'[m] : hist'.home[m][x] = m]_vars


\* C38: the tuple that deserialize gives for the bytes of a serialized record
\* is serialized again, to the same bytes.
C38_ReserializeSameBytes ==
    (last.call.op = "deserialize" /\ last.ok) =>
        \E again \in {serialize(last.rows[1], round_schema)},
           first \in {serialize(last.call.values[1], round_schema)} :
            /\ again.ok
            /\ again.v = first.v
====
